---- MODULE Spec2Model ----
(***************************************************************************)
(* Model of the preacher-portal data layer (firebase-data.js): the module  *)
(* level dataCache, the three collection fetchers, clearCache, the live    *)
(* feed listeners, fetchGalleryImages / fetchResources and the four        *)
(* aggregation functions.                                                  *)
(*                                                                         *)
(* An absent JavaScript value (null / undefined) is the empty tuple, a     *)
(* present value v is the one-element tuple <<v>>.                         *)
(***************************************************************************)
EXTENDS Integers, Sequences, FiniteSets, TLC

Null == <<>>
Some(v) == <<v>>
Val(x) == x[1]
Min(a, b) == IF a <= b THEN a ELSE b

\* The three collections held by dataCache.
Collections == {"activityReports", "preachingCategories", "users"}

\* const CACHE_DURATION = 5 * 60 * 1000 (milliseconds)
CACHE_DURATION == 5 * 60 * 1000

\* limit(50) of the query listenToActivityReports subscribes to
ListenLimit == 50

\* Bounds of the model.
MaxTicks == 2
MaxStoreWrites == 1
MaxCalls == 1
MaxPushes == 2
MaxImages == 3
MaxStamp == 3

\* Clock steps (ms) the model lets Date.now() advance by.
TickSteps == {1, CACHE_DURATION - 1}

\* Numbers of documents an external writer adds to a collection in one step.
WriteSteps == {1, ListenLimit + 1}

\* The three live feeds: listenToActivityReports, listenToResources,
\* listenToGalleryImages.
Feeds == {"activityReports", "resources", "galleryImages"}

VARIABLES
    now,        \* Date.now()
    ticks,      \* number of clock steps taken (bounded by MaxTicks)
    store,      \* external store: number of documents of each collection
    writes,     \* number of external writes so far (bounded by MaxStoreWrites)
    dataCache,  \* let dataCache = {activityReports, preachingCategories, users, lastFetch}
    calls,      \* fetcher invocations suspended at `await getDocs(...)`
    lastEvent,  \* what the latest step let a caller observe: a return value, a
                \* store query, a callback invocation (NoEvent when nothing)
    storedAt,   \* history: Date.now() when each cached collection was written
    listener,   \* per live feed: the subscription, its handle, its fallbacks
    pushes,     \* number of snapshots pushed so far (bounded by MaxPushes)
    galleryRun, \* the fetchGalleryImages invocation: its inputs and what it returned
    aggRun,     \* the aggregation call: its inputs and what it returned
    uploadRun,  \* the upload call: its arguments, the store calls it made, its end
    deleteRun,  \* the delete call: its arguments, the two stores before and after, its end
    roleRun     \* the user directory of the store, the users this process has cached,
                \* and what the latest role operation returned

cacheVars == <<now, ticks, store, writes, dataCache, calls, storedAt>>
listenVars == <<listener, pushes>>
otherVars == <<galleryRun, aggRun, uploadRun, deleteRun, roleRun>>

(***************************************************************************)
(* The external store.  Documents of a collection are numbered 1..n in     *)
(* creation order; document k was created k-th.                            *)
(***************************************************************************)

\* getDocs(query(reportsRef, orderBy('createdAt', 'desc') [, limit(lim)])):
\* the newest lim documents, newest first.
OrderedDocs(n, lim) == [i \in 1..Min(n, lim) |-> n + 1 - i]

\* querySnapshot.forEach(doc => reports.push({id: doc.id, ...doc.data()}))
ReportsOf(docs) == [i \in 1..Len(docs) |-> [id |-> docs[i], createdAt |-> docs[i]]]

\* querySnapshot.forEach(doc => { categories[doc.id] = doc.data(); })
MappingOf(n) == [id \in 1..n |-> [docId |-> id]]

\* What a fetcher builds from a successful store response.
FetchedValue(c, n) ==
    IF c = "activityReports" THEN ReportsOf(OrderedDocs(n, n)) ELSE MappingOf(n)

\* What a fetcher returns from its catch block: [] for reports, {} otherwise.
EmptyValue(c) == <<>>

(***************************************************************************)
(* Gallery images and resources: fetchGalleryImages, fetchResources        *)
(*                                                                         *)
(* A stored document is [id, createdAt, uploadedAt]: createdAt a store     *)
(* timestamp or absent, uploadedAt an ISO string or absent; both are       *)
(* modelled by the instant they denote.  The documents given to an         *)
(* operation are those matching its category filter, in document order.    *)
(***************************************************************************)

Doc(id, createdAt, uploadedAt) ==
    [id |-> id, createdAt |-> createdAt, uploadedAt |-> uploadedAt]

\* images.push({id: doc.id, ...data, uploadedAt: data.uploadedAt ||
\*              data.createdAt?.toDate?.()?.toISOString() || new Date().toISOString(), ...})
NormalizeUploaded(d, t) ==
    [d EXCEPT !.uploadedAt = IF d.uploadedAt # Null THEN d.uploadedAt
                             ELSE IF d.createdAt # Null THEN d.createdAt
                             ELSE Some(t)]

NormalizeAll(docs, t) == [i \in 1..Len(docs) |-> NormalizeUploaded(docs[i], t)]

\* a.createdAt?.toDate?.() || new Date(a.uploadedAt || 0)
SortDate(a) ==
    IF a.createdAt # Null THEN Val(a.createdAt)
    ELSE IF a.uploadedAt # Null THEN Val(a.uploadedAt)
    ELSE 0

\* A comparator with the operands swapped (dateA - dateB): oldest first.
Before_Ascending(a, b) == SortDate(a) - SortDate(b) < 0

\* The comparator (a, b) => dateB - dateA puts a before b when it is negative.
Before(a, b) == SortDate(b) - SortDate(a) < 0

RECURSIVE InsertSorted(_, _)
\* Array.prototype.sort is stable: x goes behind every element it does not
\* strictly precede.
InsertSorted(sorted, x) ==
    IF sorted = <<>> THEN <<x>>
    ELSE IF Before(x, Head(sorted)) THEN <<x>> \o sorted
    ELSE <<Head(sorted)>> \o InsertSorted(Tail(sorted), x)

RECURSIVE SortNewestFirst(_)
\* images.sort((a, b) => dateB - dateA)
SortNewestFirst(seq) ==
    IF seq = <<>> THEN <<>>
    ELSE InsertSorted(SortNewestFirst(SubSeq(seq, 1, Len(seq) - 1)), seq[Len(seq)])

RECURSIVE WithCreatedAt(_)
\* The store leaves documents without the orderBy field out of an ordered query.
WithCreatedAt(docs) ==
    IF docs = <<>> THEN <<>>
    ELSE IF Head(docs).createdAt # Null THEN <<Head(docs)>> \o WithCreatedAt(Tail(docs))
    ELSE WithCreatedAt(Tail(docs))

\* The store's answer to a query with orderBy('createdAt', 'desc').
StoreOrdered(docs) == SortNewestFirst(WithCreatedAt(docs))

\* The queries fetchGalleryImages issues: the ordered one, and the unordered
\* one when the ordered one failed; a second failure is rethrown.
GalleryQueries(orderedOk, retryOk) ==
    IF orderedOk THEN [n |-> 1, ok |-> TRUE, ordered |-> TRUE]
    ELSE IF retryOk THEN [n |-> 2, ok |-> TRUE, ordered |-> FALSE]
    ELSE [n |-> 2, ok |-> FALSE, ordered |-> FALSE]

\* `if (images.length > 1) images.sort(...)`
SortIfSeveral(images) == IF Len(images) > 1 THEN SortNewestFirst(images) ELSE images

\* export async function fetchGalleryImages(category = null), start to return.
GalleryFetchResult(docs, orderedOk, retryOk, t) ==
    LET q == GalleryQueries(orderedOk, retryOk)
        snapshot == IF q.ordered THEN StoreOrdered(docs) ELSE docs
    IN IF q.ok
       THEN [queries |-> q.n, outcome |-> "returned",
             images |-> SortIfSeveral(NormalizeAll(snapshot, t))]
       ELSE [queries |-> q.n, outcome |-> "returned", images |-> <<>>]

\* export async function fetchResources(category = null), start to return.
ResourcesFetchResult(docs, ok, t) ==
    IF ok
    THEN [queries |-> 1, outcome |-> "returned",
          images |-> SortNewestFirst(NormalizeAll(docs, t))]
    ELSE [queries |-> 1, outcome |-> "returned", images |-> <<>>]

\* Instants a stored timestamp may denote, and document sequences of up to
\* MaxImages documents numbered in document order.
Stamps == {Null} \cup {Some(t) : t \in 1..MaxStamp}
Uploads == {Null, Some(2)}

DocsOfLength(n) ==
    { [i \in 1..n |-> Doc(i, f[i][1], f[i][2])] : f \in [1..n -> Stamps \X Uploads] }

AllDocs == UNION { DocsOfLength(n) : n \in 0..MaxImages }

IdleGalleryRun ==
    [category |-> Null, docs |-> <<>>, orderedOk |-> TRUE, retryOk |-> TRUE,
     queries |-> 0, outcome |-> "none", images |-> <<>>]

(***************************************************************************)
(* Cache layer                                                             *)
(***************************************************************************)

EmptyCache ==
    [activityReports |-> Null, preachingCategories |-> Null, users |-> Null,
     lastFetch |-> Null]

\* isCacheValid with the expiry comparison off by one (<= instead of <).
isCacheValid_Inclusive ==
    /\ dataCache.lastFetch # Null
    /\ Val(dataCache.lastFetch) # 0
    /\ (now - Val(dataCache.lastFetch)) <= CACHE_DURATION

\* function isCacheValid(): dataCache.lastFetch && (Date.now() - lastFetch) < CACHE_DURATION
isCacheValid ==
    /\ dataCache.lastFetch # Null
    /\ Val(dataCache.lastFetch) # 0
    /\ (now - Val(dataCache.lastFetch)) < CACHE_DURATION

\* `isCacheValid() && dataCache.<collection>`: an empty array or object is truthy.
CacheHit(c) == isCacheValid /\ dataCache[c] # Null

NoEvent == [seq |-> 0, op |-> "", outcome |-> "", value |-> <<>>]

Event(op, outcome, value) ==
    [seq |-> 1 - lastEvent.seq, op |-> op, outcome |-> outcome, value |-> value]

IdleCall == [pc |-> "idle", coll |-> "", resp |-> "", n |-> 0]

\* StoreResult stamping lastFetch whatever the collection.
StoreResult_StampsAll(c, value) ==
    [dataCache EXCEPT ![c] = Some(value), !.lastFetch = Some(now)]

\* StoreResult never stamping lastFetch.
StoreResult_NoStamp(c, value) == [dataCache EXCEPT ![c] = Some(value)]

\* The cache fields a fetcher assigns after a successful query.
StoreResult(c, value) ==
    IF c = "activityReports"
    THEN [dataCache EXCEPT ![c] = Some(value), !.lastFetch = Some(now)]
    ELSE [dataCache EXCEPT ![c] = Some(value)]

\* A catch block that caches the empty value it returns.
CatchCache_StoresEmpty(c) == [dataCache EXCEPT ![c] = Some(EmptyValue(c))]

\* The cache after the catch block of a fetcher, which assigns nothing.
CatchCache(c) == dataCache

\* A catch block that logs and rethrows.
FetchCatch_Rethrows(c) == Event(c, "thrown", <<>>)

\* The catch block of a fetcher: console.error(...); return [] (or {}).
FetchCatch(c) == Event(c, "failed", EmptyValue(c))

\* A fetcher up to its first suspension: the cached collection is returned, or
\* the query is sent and the call suspends at `await getDocs(...)`.
FetchCall(i, c) ==
    /\ calls[i].pc = "idle"
    /\ IF CacheHit(c)
       THEN /\ lastEvent' = Event(c, "cached", Val(dataCache[c]))
            /\ UNCHANGED calls
       ELSE /\ calls' = [calls EXCEPT ![i] = [pc |-> "awaiting", coll |-> c,
                                               resp |-> "", n |-> 0]]
            /\ lastEvent' = Event(c, "query", <<>>)
    /\ UNCHANGED <<now, ticks, store, writes, dataCache, storedAt>>
    /\ UNCHANGED <<listenVars, otherVars>>

\* The store answers a pending getDocs: with its current documents, or with an error.
StoreRespond(i, ok) ==
    /\ calls[i].pc = "awaiting"
    /\ calls' = [calls EXCEPT ![i].pc = "responded",
                              ![i].resp = IF ok THEN "ok" ELSE "error",
                              ![i].n = IF ok THEN store[calls[i].coll] ELSE 0]
    /\ lastEvent' = NoEvent
    /\ UNCHANGED <<now, ticks, store, writes, dataCache, storedAt>>
    /\ UNCHANGED <<listenVars, otherVars>>

\* A fetcher resumed after the await: the try block's tail, or the catch block.
FetchResume(i) ==
    /\ calls[i].pc = "responded"
    /\ LET c == calls[i].coll
           value == FetchedValue(c, calls[i].n)
       IN IF calls[i].resp = "ok"
          THEN /\ dataCache' = StoreResult(c, value)
               /\ storedAt' = [storedAt EXCEPT ![c] = now]
               /\ lastEvent' = Event(c, "fetched", value)
          ELSE /\ lastEvent' = FetchCatch(c)
               /\ dataCache' = CatchCache(c)
               /\ UNCHANGED storedAt
    /\ calls' = [calls EXCEPT ![i] = IdleCall]
    /\ UNCHANGED <<now, ticks, store, writes>>
    /\ UNCHANGED <<listenVars, otherVars>>

\* export async function fetchActivityReports()
fetchActivityReports(i) == FetchCall(i, "activityReports")

\* export async function fetchPreachingCategories()
fetchPreachingCategories(i) == FetchCall(i, "preachingCategories")

\* export async function fetchUsers()
fetchUsers(i) == FetchCall(i, "users")

\* A clearCache that forgets the users field.
ClearedCache_KeepsUsers == [EmptyCache EXCEPT !.users = dataCache.users]

\* The object clearCache() assigns to dataCache.
ClearedCache == EmptyCache

\* export function clearCache()
clearCache ==
    /\ dataCache' = ClearedCache
    /\ storedAt' = [c \in Collections |-> IF ClearedCache[c] = Null THEN 0 ELSE storedAt[c]]
    /\ lastEvent' = Event("clearCache",
                           IF dataCache = EmptyCache THEN "noop" ELSE "cleared", <<>>)
    /\ UNCHANGED <<now, ticks, store, writes, calls>>
    /\ UNCHANGED <<listenVars, otherVars>>

\* Time passes.
Tick(d) ==
    /\ ticks < MaxTicks
    /\ now' = now + d
    /\ ticks' = ticks + 1
    /\ lastEvent' = NoEvent
    /\ UNCHANGED <<store, writes, dataCache, calls, storedAt>>
    /\ UNCHANGED <<listenVars, otherVars>>

\* Another client adds k documents to collection c.
StoreWrite(c, k) ==
    /\ writes < MaxStoreWrites
    /\ store' = [store EXCEPT ![c] = @ + k]
    /\ writes' = writes + 1
    /\ lastEvent' = NoEvent
    /\ UNCHANGED <<now, ticks, dataCache, calls, storedAt>>
    /\ UNCHANGED <<listenVars, otherVars>>

(***************************************************************************)
(* Change feed: listenToActivityReports                                    *)
(***************************************************************************)

IdleListener ==
    [handle |-> "none", sub |-> "none", useOrderBy |-> FALSE, cancelled |-> FALSE,
     fallback |-> "none", fetch |-> "none", fetches |-> 0, callbacks |-> 0]

\* The array the reports listener builds from a pushed querySnapshot of the
\* query orderBy('createdAt', 'desc'), limit(50).
PushedReports(n) == ReportsOf(OrderedDocs(n, ListenLimit))

\* export function listenToActivityReports(callback): onSnapshot(q, next) with
\* no error callback; a throw while subscribing is caught and null returned.
listenToActivityReports(setupOk) ==
    /\ listener["activityReports"].handle = "none"
    /\ listener' = [listener EXCEPT !["activityReports"] =
                      IF setupOk
                      THEN [@ EXCEPT !.handle = "unsubscribe", !.sub = "active"]
                      ELSE [@ EXCEPT !.handle = "null"]]
    /\ lastEvent' = NoEvent
    /\ UNCHANGED <<cacheVars, pushes, otherVars>>

\* The next-callback of the reports listener, run on a pushed snapshot.
ReportsPush ==
    /\ listener["activityReports"].sub = "active"
    /\ LET reports == PushedReports(store["activityReports"])
       IN /\ dataCache' = [dataCache EXCEPT !["activityReports"] = Some(reports),
                                            !.lastFetch = Some(now)]
          /\ storedAt' = [storedAt EXCEPT !["activityReports"] = now]
          /\ lastEvent' = Event("activityReports", "callback", reports)
    /\ UNCHANGED <<now, ticks, store, writes, calls, listenVars, otherVars>>

(***************************************************************************)
(* Change feeds: listenToResources, listenToGalleryImages                  *)
(***************************************************************************)

\* Snapshots the store may push to a feed, or answer a one-shot fetch with.
FeedDocs ==
    { <<>>,
      <<Doc(1, Some(1), Some(1)), Doc(2, Some(2), Null)>>,
      <<Doc(1, Null, Null), Doc(2, Some(1), Some(2))>> }

\* onSnapshot(q, next, error) returned its unsubscribe function, or threw and
\* the listen function returned null from its catch block.
Subscribe(f, setupOk, useOrderBy) ==
    /\ listener[f].handle = "none"
    /\ listener' = [listener EXCEPT ![f] =
                      IF setupOk
                      THEN [@ EXCEPT !.handle = "unsubscribe", !.sub = "active",
                                     !.useOrderBy = useOrderBy]
                      ELSE [@ EXCEPT !.handle = "null"]]
    /\ lastEvent' = NoEvent
    /\ UNCHANGED <<cacheVars, pushes, otherVars>>

\* export function listenToResources(category, callback)
listenToResources(setupOk) == Subscribe("resources", setupOk, FALSE)

\* export function listenToGalleryImages(category, callback): useOrderBy is
\* false only when building the ordered query threw.
listenToGalleryImages(setupOk, orderByOk) ==
    Subscribe("galleryImages", setupOk, orderByOk)

\* The next-callback of the resources listener.
ResourcesPush(docs) ==
    /\ listener["resources"].sub = "active"
    /\ lastEvent' = Event("resources", "callback",
                          SortNewestFirst(NormalizeAll(docs, now)))
    /\ UNCHANGED <<cacheVars, listenVars, otherVars>>

\* The next-callback of the gallery listener: sorted by hand only when the
\* query carries no orderBy.
GalleryPush(docs) ==
    /\ listener["galleryImages"].sub = "active"
    /\ lastEvent' = Event("galleryImages", "callback",
                          IF listener["galleryImages"].useOrderBy
                          THEN StoreOrdered(docs)
                          ELSE SortIfSeveral(docs))
    /\ UNCHANGED <<cacheVars, listenVars, otherVars>>

\* What a listener does when its subscription fails.  The reports listener
\* passed no error callback.  The resources listener starts fetchResources.
\* The gallery listener, on an index error, subscribes to the unordered query
\* and returns; otherwise (or when that subscribing throws) it starts
\* fetchGalleryImages.
OnSubscriptionError(f, l, indexError, fallbackOk) ==
    IF f = "activityReports" THEN l
    ELSE IF f = "galleryImages" /\ indexError /\ fallbackOk
    THEN [l EXCEPT !.fallback = "active"]
    ELSE [l EXCEPT !.fetch = "pending", !.fetches = @ + 1]

\* The store fails a live subscription, which ends it.
SubscriptionError(f, indexError, fallbackOk) ==
    /\ listener[f].sub = "active"
    /\ listener' = [listener EXCEPT ![f] =
                      OnSubscriptionError(f, [@ EXCEPT !.sub = "failed"],
                                          indexError, fallbackOk)]
    /\ lastEvent' = NoEvent
    /\ UNCHANGED <<cacheVars, pushes, otherVars>>

\* The next-callback of the gallery listener's fallback subscription.
GalleryFallbackPush(docs) ==
    /\ listener["galleryImages"].fallback = "active"
    /\ pushes < MaxPushes
    /\ pushes' = pushes + 1
    /\ listener' = [listener EXCEPT !["galleryImages"].callbacks = @ + 1]
    /\ lastEvent' = Event("galleryImages", "callback", SortIfSeveral(docs))
    /\ UNCHANGED <<cacheVars, otherVars>>

\* The fallback subscription fails in turn; it has no error callback.
GalleryFallbackError ==
    /\ listener["galleryImages"].fallback = "active"
    /\ listener' = [listener EXCEPT !["galleryImages"].fallback = "failed"]
    /\ lastEvent' = NoEvent
    /\ UNCHANGED <<cacheVars, pushes, otherVars>>

\* The one-shot fetch of an error callback settles and its then-handler
\* invokes the callback with the fetched sequence.
OneShotSettle(f, docs, orderedOk, retryOk) ==
    /\ listener[f].fetch = "pending"
    /\ listener' = [listener EXCEPT ![f].fetch = "done", ![f].callbacks = @ + 1]
    /\ lastEvent' = Event(f, "callback",
                          IF f = "galleryImages"
                          THEN GalleryFetchResult(docs, orderedOk, retryOk, now).images
                          ELSE ResourcesFetchResult(docs, orderedOk, now).images)
    /\ UNCHANGED <<cacheVars, pushes, otherVars>>

\* The caller invokes the handle a listen function returned: the
\* unsubscribe function of the subscription made first.
Unsubscribe(f) ==
    /\ listener[f].handle = "unsubscribe"
    /\ ~listener[f].cancelled
    /\ listener' = [listener EXCEPT ![f].cancelled = TRUE,
                                    ![f].sub = IF @ = "active" THEN "detached" ELSE @]
    /\ lastEvent' = NoEvent
    /\ UNCHANGED <<cacheVars, pushes, otherVars>>

(***************************************************************************)
(* Aggregation engine: calculatePreachingImpact, getRecentReports,         *)
(* getChartData, getPieChartData                                           *)
(*                                                                         *)
(* A report is a record of optional fields.  booksDistributed is           *)
(* [kind |-> "absent" | "number" | "object", ...]; contacts is             *)
(* [kind |-> "absent" | "array" | "string", items |-> <<contact, ...>>]    *)
(* (a string of Len(items) characters is the non-array value with a        *)
(* length); a contact is an object with three flags or the value null;     *)
(* createdAt is absent, a store Timestamp (seconds), an ISO string, or a   *)
(* map that has a toDate entry which is no function.  The directories are  *)
(* sequences of records in the order of Object.keys / Object.values.       *)
(***************************************************************************)

\* JavaScript truthiness of an optional number and of an optional string.
TruthyNum(x) == x # Null /\ Val(x) # 0
TruthyStr(x) == x # Null /\ Val(x) # ""

\* x || 0
OrZero(x) == IF TruthyNum(x) THEN Val(x) ELSE 0

NoBooks == [kind |-> "absent", n |-> 0, big |-> Null, medium |-> Null, small |-> Null]
NumBooks(n) == [NoBooks EXCEPT !.kind = "number", !.n = n]
SizedBooks(b, m, sm) ==
    [NoBooks EXCEPT !.kind = "object", !.big = b, !.medium = m, !.small = sm]

Contact(isNewContact, isNew, contactType) ==
    [null |-> FALSE, isNewContact |-> isNewContact, isNew |-> isNew,
     contactType |-> contactType]
NullContact == [Contact(FALSE, FALSE, "") EXCEPT !.null = TRUE]

NoContacts == [kind |-> "absent", items |-> <<>>]
ContactArray(items) == [kind |-> "array", items |-> items]
ContactString(items) == [kind |-> "string", items |-> items]

NoStamp == [kind |-> "absent", t |-> 0]
Timestamp(t) == [kind |-> "timestamp", t |-> t]
IsoString(t) == [kind |-> "string", t |-> t]
ToDateMap == [kind |-> "map", t |-> 0]

\* directory[id]: the record stored under id, or undefined.
Lookup(directory, id) ==
    IF id # Null /\ \E i \in 1..Len(directory) : directory[i].id = Val(id)
    THEN Some(directory[CHOOSE i \in 1..Len(directory) : directory[i].id = Val(id)])
    ELSE Null

\* A book count that leaves the small books out.
BookCount_WithoutSmall(report) ==
    LET b == report.booksDistributed
    IN IF b.kind = "object" THEN OrZero(b.big) + OrZero(b.medium)
       ELSE IF b.kind = "number" THEN b.n
       ELSE 0

\* The book count of one report: `if (report.booksDistributed) { typeof
\* ... === 'object' ? (big || 0) + (medium || 0) + (small || 0) : value }`.
BookCount(report) ==
    LET b == report.booksDistributed
    IN IF b.kind = "object" THEN OrZero(b.big) + OrZero(b.medium) + OrZero(b.small)
       ELSE IF b.kind = "number" THEN b.n
       ELSE 0

\* contact.isNewContact === true || contact.isNew === true ||
\* (contact.contactType && contact.contactType === 'new')
IsNewContact(contact) ==
    contact.isNewContact \/ contact.isNew \/ contact.contactType = "new"

\* report.contacts is truthy: an array always is, a string when not empty.
ContactsTruthy(report) ==
    \/ report.contacts.kind = "array"
    \/ report.contacts.kind = "string" /\ Len(report.contacts.items) > 0

\* A new-contact count without the fallback to the full length.
NewContactCount_MarkedOnly(report) ==
    IF report.contacts.kind = "array"
    THEN Len(SelectSeq(report.contacts.items, IsNewContact))
    ELSE IF TruthyNum(report.newContacts) THEN Val(report.newContacts)
    ELSE 0

\* The new contacts calculatePreachingImpact counts for one report.
NewContactCount(report) ==
    IF report.contacts.kind = "array"
    THEN LET newContacts == SelectSeq(report.contacts.items, IsNewContact)
         IN IF Len(newContacts) > 0 THEN Len(newContacts)
            ELSE Len(report.contacts.items)
    ELSE IF TruthyNum(report.newContacts) THEN Val(report.newContacts)
    ELSE 0

\* An estimate of two plates for every contact.
PrasadamEstimate_Twice(report) == Len(report.contacts.items) * 2

\* Math.floor(report.contacts.length * 1.5)
PrasadamEstimate(report) == (Len(report.contacts.items) * 3) \div 2

\* The prasadam calculatePreachingImpact counts for one report
\* (`else if (report.contacts)`).
ImpactPrasadam(report) ==
    IF TruthyNum(report.prasadamServed) THEN Val(report.prasadamServed)
    ELSE IF ContactsTruthy(report) THEN PrasadamEstimate(report)
    ELSE 0

\* The prasadam getRecentReports and getChartData count for one report
\* (`else if (report.contacts && Array.isArray(report.contacts))`).
RowPrasadam(report) ==
    IF TruthyNum(report.prasadamServed) THEN Val(report.prasadamServed)
    ELSE IF report.contacts.kind = "array" THEN PrasadamEstimate(report)
    ELSE 0

\* An accumulation that keeps the first addend only.
Sum_FirstOnly(numbers) == IF numbers = <<>> THEN 0 ELSE Head(numbers)

RECURSIVE Sum(_)
\* let total = 0; numbers.forEach(n => { total += n })
Sum(numbers) ==
    IF numbers = <<>> THEN 0 ELSE Head(numbers) + Sum(Tail(numbers))

\* The book counts, new-contact counts and prasadam counts of a report
\* sequence, report by report.
BookCounts(reports) == [i \in 1..Len(reports) |-> BookCount(reports[i])]
NewContactCounts(reports) == [i \in 1..Len(reports) |-> NewContactCount(reports[i])]
ImpactPrasadams(reports) == [i \in 1..Len(reports) |-> ImpactPrasadam(reports[i])]
RowPrasadams(reports) == [i \in 1..Len(reports) |-> RowPrasadam(reports[i])]

\* A set of temples that holds the temple of every directory user.
TemplesWithReports_AllUsers(reports, users) ==
    { Val(users[u].temple) : u \in { v \in 1..Len(users) : TruthyStr(users[v].temple) } }

\* templesWithReports: the temples of the directory users who authored a report.
TemplesWithReports(reports, users) ==
    { Val(Val(Lookup(users, reports[i].createdBy)).temple) :
        i \in { j \in 1..Len(reports) :
                  /\ TruthyStr(reports[j].createdBy)
                  /\ Lookup(users, reports[j].createdBy) # Null
                  /\ TruthyStr(Val(Lookup(users, reports[j].createdBy)).temple) } }

\* The filter callback reads a property of every contact: it throws a
\* TypeError on a contact that is null.
ImpactThrows(reports) ==
    \E i \in 1..Len(reports) :
        /\ reports[i].contacts.kind = "array"
        /\ \E k \in 1..Len(reports[i].contacts.items) : reports[i].contacts.items[k].null

\* The try block of calculatePreachingImpact once both fetchers have returned.
ImpactTotals(reports, users) ==
    LET prasadam == Sum(ImpactPrasadams(reports))
        newContacts == Sum(NewContactCounts(reports))
    IN [totalReports |-> Len(reports),
        totalBooksDistributed |-> Sum(BookCounts(reports)),
        totalPrasadamServed |-> IF prasadam # 0 THEN prasadam ELSE newContacts * 2,
        livesTouched |-> newContacts,
        activePreachers |-> Len(users),
        citiesCovered |-> Cardinality(TemplesWithReports(reports, users))]

\* The object the catch block of calculatePreachingImpact returns.
ZeroImpact ==
    [totalReports |-> 0, totalBooksDistributed |-> 0, totalPrasadamServed |-> 0,
     livesTouched |-> 0, activePreachers |-> 0, citiesCovered |-> 0]

Returned(value) == [outcome |-> "returned", value |-> value]
Thrown == [outcome |-> "thrown", value |-> <<>>]

\* A catch block that logs and rethrows instead of returning the fallback.
ImpactCatch_Rethrows == Thrown

\* catch (error) { console.error(...); return { totalReports: 0, ... } }
ImpactCatch == Returned(ZeroImpact)

\* export async function calculatePreachingImpact()
ImpactResult(reports, users) ==
    IF ImpactThrows(reports) THEN ImpactCatch
    ELSE Returned(ImpactTotals(reports, users))

\* a || b || ... || fallback over optional strings.
RECURSIVE FirstTruthy(_, _)
FirstTruthy(options, fallback) ==
    IF options = <<>> THEN fallback
    ELSE IF TruthyStr(Head(options)) THEN Val(Head(options))
    ELSE FirstTruthy(Tail(options), fallback)

\* users[id] || {} and categories[id] || {}: a record without any field set.
EmptyUser == [id |-> "", displayName |-> Null, name |-> Null, email |-> Null,
              temple |-> Null]
EmptyCategory == [id |-> "", categoryName |-> Null, name |-> Null]
UserOf(users, report) ==
    IF Lookup(users, report.createdBy) # Null
    THEN Val(Lookup(users, report.createdBy)) ELSE EmptyUser
CategoryOf(categories, report) ==
    IF Lookup(categories, report.categoryId) # Null
    THEN Val(Lookup(categories, report.categoryId)) ELSE EmptyCategory

\* A slice that keeps the whole sequence.
Slice_Whole(seq, end) == seq

\* array.slice(0, end)
Slice(seq, end) ==
    SubSeq(seq, 1, IF end < 0 THEN Len(seq) + end ELSE Min(end, Len(seq)))

\* The default parameter value of getRecentReports(limitCount = 10).
DefaultLimit == 10
LimitOf(limitCount) == IF limitCount = Null THEN DefaultLimit ELSE Val(limitCount)

SecondsPerDay == 86400

\* timestamp.toDate().toISOString().split('T')[0]: the UTC calendar day of
\* a time given in seconds, for times in the first nine days of the epoch.
IsoDate(t) == "1970-01-0" \o ToString(t \div SecondsPerDay + 1)

\* report.date || report.createdAt?.toDate?.()?.toISOString().split('T')[0]
\*             || 'N/A'
\* A string has no toDate, so the optional call yields undefined.
RowDate(report) ==
    IF TruthyStr(report.date) THEN Val(report.date)
    ELSE IF report.createdAt.kind = "timestamp" THEN IsoDate(report.createdAt.t)
    ELSE "N/A"

\* An activity label that ignores the categoryName of the report.
RowActivity_CategoryOnly(report, category) ==
    FirstTruthy(<<category.categoryName, category.name>>, "Unknown Activity")

\* The activity label of a row.
RowActivity(report, category) ==
    FirstTruthy(<<category.categoryName, report.categoryName, category.name>>,
                "Unknown Activity")

\* The object the map callback of getRecentReports returns for one report.
EnrichedRow(report, categories, users) ==
    LET category == CategoryOf(categories, report)
        user == UserOf(users, report)
    IN [id |-> report.id,
        date |-> RowDate(report),
        preacher |-> FirstTruthy(<<user.displayName, user.name, user.email>>, "Unknown"),
        temple |-> FirstTruthy(<<user.temple>>, "N/A"),
        activity |-> RowActivity(report, category),
        books |-> BookCount(report),
        prasadam |-> RowPrasadam(report),
        contacts |-> IF ContactsTruthy(report) THEN Len(report.contacts.items) ELSE 0,
        createdAt |-> report.createdAt]

\* `?.()` guards against an undefined toDate only: calling a toDate that
\* is no function throws a TypeError, when report.date did not short-circuit.
RowThrows(report) ==
    ~TruthyStr(report.date) /\ report.createdAt.kind = "map"

RowsThrow(reports, limitCount) ==
    LET recentReports == Slice(reports, LimitOf(limitCount))
    IN \E i \in 1..Len(recentReports) : RowThrows(recentReports[i])

\* The try block of getRecentReports once the three fetchers have returned.
EnrichedReports(reports, categories, users, limitCount) ==
    LET recentReports == Slice(reports, LimitOf(limitCount))
    IN [i \in 1..Len(recentReports) |->
            EnrichedRow(recentReports[i], categories, users)]

\* catch (error) { console.error(...); return [] }
RowsCatch == Returned(<<>>)

\* export async function getRecentReports(limitCount = 10)
RowsResult(reports, categories, users, limitCount) ==
    IF RowsThrow(reports, limitCount) THEN RowsCatch
    ELSE Returned(EnrichedReports(reports, categories, users, limitCount))

\* The elements of a sequence in order of first occurrence.
RECURSIVE Distinct(_)
Distinct(seq) ==
    IF seq = <<>> THEN <<>>
    ELSE LET front == Distinct(SubSeq(seq, 1, Len(seq) - 1))
             last == seq[Len(seq)]
         IN IF \E i \in 1..Len(front) : front[i] = last THEN front
            ELSE Append(front, last)

\* The property names of the model that are canonical array indices, in
\* ascending numeric order.
IndexKeys == <<"7", "108">>

\* Object.keys of an object whose properties were created in the order
\* `created`: array-index names first, ascending, then the other names in
\* creation order.
ObjectKeys(created) ==
    LET IsIndex(k) == \E i \in 1..Len(IndexKeys) : IndexKeys[i] = k
        Created(k) == \E i \in 1..Len(created) : created[i] = k
        Other(k) == ~IsIndex(k)
    IN SelectSeq(IndexKeys, Created) \o SelectSeq(created, Other)

\* const temple = user.temple || 'Unknown'
RegionOf(report, users) == FirstTruthy(<<UserOf(users, report).temple>>, "Unknown")

\* The try block of getChartData once both fetchers have returned.
ChartSeries(reports, users) ==
    LET created == Distinct([i \in 1..Len(reports) |-> RegionOf(reports[i], users)])
        regions == Slice(ObjectKeys(created), 5)
        In(region) == SelectSeq(reports, LAMBDA r : RegionOf(r, users) = region)
    IN [regions |-> regions,
        booksData |-> [i \in 1..Len(regions) |-> Sum(BookCounts(In(regions[i])))],
        prasadamData |-> [i \in 1..Len(regions) |-> Sum(RowPrasadams(In(regions[i])))],
        eventsData |-> [i \in 1..Len(regions) |-> Len(In(regions[i]))]]

\* The object the catch block of getChartData returns.
FallbackChart ==
    [regions |-> <<"Kuala Lumpur", "Penang", "Johor", "Ipoh", "Kuching">>,
     booksData |-> <<0, 0, 0, 0, 0>>,
     prasadamData |-> <<0, 0, 0, 0, 0>>,
     eventsData |-> <<0, 0, 0, 0, 0>>]

\* catch (error) { console.error(...); return { regions: [...], ... } }
ChartCatch == Returned(FallbackChart)

\* No statement of the try block of getChartData throws on a report or a
\* user of any shape: every property read is on an object the function
\* created or defaulted (`|| {}`), and the fetchers it awaits never reject.
ChartThrows(reports, users) == FALSE

\* export async function getChartData()
ChartResult(reports, users) ==
    IF ChartThrows(reports, users) THEN ChartCatch
    ELSE Returned(ChartSeries(reports, users))

\* category.categoryName || category.name || 'Unknown Category'
DirectoryName(category) ==
    FirstTruthy(<<category.categoryName, category.name>>, "Unknown Category")

\* The category name getPieChartData counts a report under.
PieName(report, categories) ==
    LET category == CategoryOf(categories, report)
    IN FirstTruthy(<<category.categoryName, category.name, report.categoryName>>,
                   "Other")

\* A sort that leaves the entries as they are.
SortByValue_Unsorted(entries) == entries

\* Array.prototype.sort((a, b) => b.value - a.value): stable, descending.
RECURSIVE SortByValue(_)
SortByValue(entries) ==
    IF entries = <<>> THEN <<>>
    ELSE LET front == SortByValue(SubSeq(entries, 1, Len(entries) - 1))
             last == entries[Len(entries)]
             Ahead(e) == e.value >= last.value
             Behind(e) == e.value < last.value
         IN SelectSeq(front, Ahead) \o <<last>> \o SelectSeq(front, Behind)

\* The try block of getPieChartData once both fetchers have returned.
PieData(reports, categories) ==
    LET created == Distinct([i \in 1..Len(categories) |-> DirectoryName(categories[i])]
                            \o [i \in 1..Len(reports) |-> PieName(reports[i], categories)])
        names == ObjectKeys(created)
        Count(name) == Len(SelectSeq(reports, LAMBDA r : PieName(r, categories) = name))
        entries == [i \in 1..Len(names) |-> [name |-> names[i], value |-> Count(names[i])]]
        pieData == SortByValue(SelectSeq(entries, LAMBDA e : e.value > 0))
    IN IF Len(pieData) = 0
       THEN [i \in 1..Len(categories) |->
                [name |-> DirectoryName(categories[i]), value |-> 0]]
       ELSE pieData

\* The array the catch block of getPieChartData returns.
FallbackPie ==
    <<[name |-> "Book Distribution", value |-> 0],
      [name |-> "Harinama Sankirtana", value |-> 0],
      [name |-> "Food for Life", value |-> 0],
      [name |-> "Temple Programs", value |-> 0],
      [name |-> "University Programs", value |-> 0]>>

\* catch (error) { console.error(...); return [ ... ] }
PieCatch == Returned(FallbackPie)

\* No statement of the try block of getPieChartData throws on a report or a
\* category of any shape, and the fetchers it awaits never reject.
PieThrows(reports, categories) == FALSE

\* export async function getPieChartData()
PieResult(reports, categories) ==
    IF PieThrows(reports, categories) THEN PieCatch
    ELSE Returned(PieData(reports, categories))

\* Largest number of reports the aggregation functions are run on.
MaxReports == 2

\* A report with no optional field set.
Report(id) ==
    [id |-> id, booksDistributed |-> NoBooks, contacts |-> NoContacts,
     newContacts |-> Null, prasadamServed |-> Null, createdBy |-> Null,
     categoryId |-> Null, categoryName |-> Null, date |-> Null,
     createdAt |-> NoStamp]


\* Report shapes found in the activityReports collection.
ReportPool ==
    LET Fresh == Contact(TRUE, FALSE, "")
        Typed == Contact(FALSE, FALSE, "new")
        Known == Contact(FALSE, FALSE, "followup")
        Plain == Contact(FALSE, FALSE, "")
    IN
        { [Report("r1") EXCEPT !.booksDistributed = NumBooks(4),
                               !.contacts = ContactArray(<<Fresh, Known, Known>>),
                               !.createdBy = Some("u1"), !.categoryId = Some("c1"),
                               !.date = Some("2024-03-01"),
                               !.createdAt = Timestamp(SecondsPerDay)],
          [Report("r2") EXCEPT !.booksDistributed = SizedBooks(Some(1), Null, Some(2)),
                               !.contacts = ContactArray(<<Known>>),
                               !.prasadamServed = Some(5),
                               !.createdBy = Some("u2"), !.categoryId = Some("c2"),
                               !.categoryName = Some("Home Visit"),
                               !.createdAt = Timestamp(2 * SecondsPerDay + 3600)],
          [Report("r3") EXCEPT !.newContacts = Some(2), !.prasadamServed = Some(0),
                               !.contacts = ContactArray(<<Typed, Fresh>>),
                               !.createdBy = Some("u3"), !.categoryId = Some("c3"),
                               !.createdAt = IsoString(SecondsPerDay)],
          [Report("r4") EXCEPT !.booksDistributed = NumBooks(0),
                               !.newContacts = Some(3),
                               !.contacts = ContactString(<<Known, Known, Known>>),
                               !.createdBy = Some("u9"), !.categoryId = Some("c9"),
                               !.categoryName = Some("Festival")],
          [Report("r5") EXCEPT !.contacts = ContactArray(<<>>),
                               !.createdBy = Some("u4")],
          [Report("r6") EXCEPT !.contacts = ContactArray(<<Fresh, NullContact>>),
                               !.prasadamServed = Some(2),
                               !.createdBy = Some("u1"), !.categoryId = Some("c1"),
                               !.date = Some("2024-03-02")],
          [Report("r7") EXCEPT !.booksDistributed = NumBooks(1),
                               !.createdBy = Some("u5"), !.categoryId = Some("c2"),
                               !.createdAt = ToDateMap],
          [Report("r8") EXCEPT !.contacts = ContactArray(<<NullContact>>),
                               !.createdBy = Some("u2"),
                               !.createdAt = ToDateMap],
          [Report("r9") EXCEPT !.booksDistributed = SizedBooks(Null, Null, Null),
                               !.contacts = ContactArray(<<Plain, Plain>>),
                               !.createdBy = Some("u2"), !.categoryId = Some("c1"),
                               !.createdAt = Timestamp(0)] }

\* Sequences of n different reports.
RECURSIVE ReportsOfLength(_)
ReportsOfLength(n) ==
    IF n = 0 THEN { <<>> }
    ELSE { reports \in { Append(front, r) : front \in ReportsOfLength(n - 1),
                                            r \in ReportPool } :
             \A i \in 1..(n - 1) : reports[i].id # reports[n].id }

ReportLists == UNION { ReportsOfLength(n) : n \in 0..MaxReports }

\* A collection of one report more than the default row limit, in store
\* order: each report by an author of its own, the first of one category
\* and the others of another, with growing book counts.
ManyReports ==
    [i \in 1..(DefaultLimit + 1) |->
        [Report("p" \o ToString(i)) EXCEPT
            !.booksDistributed = NumBooks(i),
            !.createdBy = Some("q" \o ToString(i)),
            !.categoryId = Some(IF i = 1 THEN "c1" ELSE "c2")]]

User(id, displayName, name, email, temple) ==
    [id |-> id, displayName |-> displayName, name |-> name, email |-> email,
     temple |-> temple]
\* Contents of the users collection, in document order.
UserDirectories ==
    LET Gopal == User("u1", Some("Gopal"), Some("G. Das"), Some("gopal@example.org"),
                      Some("Kuala Lumpur"))
        Madhava == User("u2", Null, Some("Madhava"), Some("madhava@example.org"),
                        Some("Penang"))
        Nitai == User("u3", Null, Null, Some("nitai@example.org"), Null)
        Anonymous == User("u4", Null, Null, Null, Some("Kuala Lumpur"))
        Sevak == User("u5", Some("Sevak"), Null, Null, Some("108"))
        Authors == [i \in 1..7 |-> User("q" \o ToString(i), Null, Null, Null,
                                        Some("Temple " \o ToString(i)))]
    IN { <<>>, <<Madhava, Gopal>>, <<Gopal, Madhava, Nitai, Anonymous, Sevak>>, Authors }

Category(id, categoryName, name) ==
    [id |-> id, categoryName |-> categoryName, name |-> name]
\* Contents of the preachingCategories collection, in document order.
CategoryDirectories ==
    LET Books == Category("c1", Some("Book Distribution"), Some("Books"))
        Harinama == Category("c2", Null, Some("Harinama Sankirtana"))
        Unnamed == Category("c3", Null, Null)
        BooksAgain == Category("c4", Some("Book Distribution"), Null)
    IN { <<>>, <<Books, Harinama, Unnamed>>, <<Harinama, Books, BooksAgain>> }

\* Arguments of getRecentReports: none (the default applies) or a number.
LimitCounts == { Null, Some(0), Some(1), Some(2) }

\* What the fetcher of collection c returns to an aggregation function: the
\* documents of the collection, or its empty value when the store fails.
Fetched(c, docs, down) == IF c \in down THEN EmptyValue(c) ELSE docs

IdleAggRun ==
    [fn |-> "none", reports |-> <<>>, categories |-> <<>>, users |-> <<>>,
     limitCount |-> Null, outcome |-> "none", value |-> <<>>]

AggRun(fn, reports, categories, users, limitCount, result) ==
    [fn |-> fn, reports |-> reports, categories |-> categories, users |-> users,
     limitCount |-> limitCount, outcome |-> result.outcome, value |-> result.value]

\* One call of calculatePreachingImpact, from the call to the settled promise.
calculatePreachingImpact(docs, userDocs, down) ==
    LET reports == Fetched("activityReports", docs, down)
        users == Fetched("users", userDocs, down)
    IN /\ aggRun.fn = "none"
       /\ aggRun' = AggRun("calculatePreachingImpact", reports, <<>>, users, Null,
                           ImpactResult(reports, users))
       /\ UNCHANGED <<cacheVars, listenVars, galleryRun, uploadRun, deleteRun, roleRun, lastEvent>>

\* One call of getRecentReports, from the call to the settled promise.
getRecentReports(limitCount, docs, categoryDocs, userDocs, down) ==
    LET reports == Fetched("activityReports", docs, down)
        categories == Fetched("preachingCategories", categoryDocs, down)
        users == Fetched("users", userDocs, down)
    IN /\ aggRun.fn = "none"
       /\ aggRun' = AggRun("getRecentReports", reports, categories, users, limitCount,
                           RowsResult(reports, categories, users, limitCount))
       /\ UNCHANGED <<cacheVars, listenVars, galleryRun, uploadRun, deleteRun, roleRun, lastEvent>>

\* One call of getChartData, from the call to the settled promise.
getChartData(docs, userDocs, down) ==
    LET reports == Fetched("activityReports", docs, down)
        users == Fetched("users", userDocs, down)
    IN /\ aggRun.fn = "none"
       /\ aggRun' = AggRun("getChartData", reports, <<>>, users, Null,
                           ChartResult(reports, users))
       /\ UNCHANGED <<cacheVars, listenVars, galleryRun, uploadRun, deleteRun, roleRun, lastEvent>>

\* One call of getPieChartData, from the call to the settled promise.
getPieChartData(docs, categoryDocs, down) ==
    LET reports == Fetched("activityReports", docs, down)
        categories == Fetched("preachingCategories", categoryDocs, down)
    IN /\ aggRun.fn = "none"
       /\ aggRun' = AggRun("getPieChartData", reports, categories, <<>>, Null,
                           PieResult(reports, categories))
       /\ UNCHANGED <<cacheVars, listenVars, galleryRun, uploadRun, deleteRun, roleRun, lastEvent>>

\* The dashboard calls one aggregation function on some store contents.
AggNext ==
    \/ /\ aggRun.fn = "none"
       /\ \E docs \in ReportLists, userDocs \in UserDirectories,
             down \in SUBSET Collections :
            calculatePreachingImpact(docs, userDocs, down)
    \/ /\ aggRun.fn = "none"
       /\ \E docs \in ReportLists \cup {ManyReports},
             categoryDocs \in CategoryDirectories,
             userDocs \in UserDirectories, down \in SUBSET Collections,
             limitCount \in LimitCounts :
            getRecentReports(limitCount, docs, categoryDocs, userDocs, down)
    \/ /\ aggRun.fn = "none"
       /\ \E docs \in ReportLists \cup {ManyReports}, userDocs \in UserDirectories,
             down \in SUBSET Collections :
            getChartData(docs, userDocs, down)
    \/ /\ aggRun.fn = "none"
       /\ \E docs \in ReportLists \cup {ManyReports},
             categoryDocs \in CategoryDirectories, down \in SUBSET Collections :
            getPieChartData(docs, categoryDocs, down)

(***************************************************************************)
(* Upload helpers: uploadGalleryImage, uploadResource                      *)
(*                                                                         *)
(* The file argument is null or an object with optional name, size and     *)
(* type; the other arguments are optional strings.  A run records the      *)
(* calls made to the object store (uploadBytes, getDownloadURL) and to the *)
(* document store (addDoc) and how the returned promise settled.           *)
(***************************************************************************)

\* The size ceilings: 5 * 1024 * 1024 and 50 * 1024 * 1024 bytes.
ImageCeiling == 5 * 1024 * 1024
ResourceCeiling == 50 * 1024 * 1024

File(name, size, type) == [name |-> name, size |-> size, type |-> type]

\* string.startsWith(prefix)
StartsWith(string, prefix) ==
    Len(string) >= Len(prefix) /\ SubSeq(string, 1, Len(prefix)) = prefix

\* file.size > ceiling; an undefined size compares false.
Oversized(file, ceiling) == file.size # Null /\ Val(file.size) > ceiling

IdleUploadRun ==
    [fn |-> "none", file |-> Null, category |-> Null, title |-> Null, userId |-> Null,
     objectCalls |-> 0, documentCalls |-> 0, outcome |-> "none", message |-> "",
     value |-> <<>>]

\* How a run ends: the calls made to the two stores, then a rejection with
\* a message or a value.
UploadEnd(objectCalls, documentCalls, outcome, message, value) ==
    [objectCalls |-> objectCalls, documentCalls |-> documentCalls,
     outcome |-> outcome, message |-> message, value |-> value]

\* The outer catch: throw new Error(`Upload failed: ${error.message}`).
Rejected(objectCalls, documentCalls, message) ==
    UploadEnd(objectCalls, documentCalls, "thrown", "Upload failed: " \o message, <<>>)

\* The metadata written by addDoc and returned with the new document id.
Metadata(file, category, userId) ==
    [category |-> Val(category), originalName |-> Val(Val(file).name),
     size |-> Val(file).size, type |-> Val(file).type, uploadedBy |-> Val(userId)]

\* A size check that rejects a file of exactly the ceiling as well.
ImageValidation_CeilingExcluded(file, category, userId) ==
    IF file = Null THEN "Cannot read properties of null (reading 'name')"
    ELSE IF ~TruthyStr(category) THEN "Category is required"
    ELSE IF ~TruthyStr(userId) THEN "User ID is required"
    ELSE IF Val(file).size # Null /\ Val(Val(file).size) >= ImageCeiling
         THEN "File size exceeds 5MB limit"
    ELSE IF Val(file).type = Null
         THEN "Cannot read properties of undefined (reading 'startsWith')"
    ELSE IF ~StartsWith(Val(Val(file).type), "image/") THEN "File must be an image"
    ELSE IF Val(file).name = Null
         THEN "Cannot read properties of undefined (reading 'split')"
    ELSE ""

\* uploadGalleryImage up to the first store call: the message of the error
\* thrown, or "" when the file goes on to the object store.  The parameters
\* are logged first, which reads file.name: a null file throws there.
ImageValidation(file, category, userId) ==
    IF file = Null THEN "Cannot read properties of null (reading 'name')"
    ELSE IF ~TruthyStr(category) THEN "Category is required"
    ELSE IF ~TruthyStr(userId) THEN "User ID is required"
    ELSE IF Oversized(Val(file), ImageCeiling) THEN "File size exceeds 5MB limit"
    ELSE IF Val(file).type = Null
         THEN "Cannot read properties of undefined (reading 'startsWith')"
    ELSE IF ~StartsWith(Val(Val(file).type), "image/") THEN "File must be an image"
    ELSE IF Val(file).name = Null
         THEN "Cannot read properties of undefined (reading 'split')"
    ELSE ""

\* uploadResource up to the first store call.
ResourceValidation(file, category, title, userId) ==
    IF file = Null THEN "Cannot read properties of null (reading 'name')"
    ELSE IF ~TruthyStr(category) THEN "Category is required"
    ELSE IF ~TruthyStr(title) THEN "Title is required"
    ELSE IF ~TruthyStr(userId) THEN "User ID is required"
    ELSE IF Oversized(Val(file), ResourceCeiling) THEN "File size exceeds 50MB limit"
    ELSE IF Val(file).name = Null
         THEN "Cannot read properties of undefined (reading 'split')"
    ELSE ""

\* uploadBytes, getDownloadURL, addDoc in this order; the first that fails
\* ends the run.
StoreCalls(file, category, userId, putOk, urlOk, addOk) ==
    IF ~putOk THEN Rejected(1, 0, "Storage upload failed")
    ELSE IF ~urlOk THEN Rejected(2, 0, "Failed to get download URL")
    ELSE IF ~addOk THEN Rejected(2, 1, "Failed to save metadata")
    ELSE UploadEnd(2, 1, "returned", "", Metadata(file, category, userId))

\* export async function uploadGalleryImage(file, category, title, userId)
ImageUploadEnd(file, category, userId, putOk, urlOk, addOk) ==
    IF ImageValidation(file, category, userId) # ""
    THEN Rejected(0, 0, ImageValidation(file, category, userId))
    ELSE StoreCalls(file, category, userId, putOk, urlOk, addOk)

\* export async function uploadResource(file, category, title, description, userId)
ResourceUploadEnd(file, category, title, userId, putOk, urlOk, addOk) ==
    IF ResourceValidation(file, category, title, userId) # ""
    THEN Rejected(0, 0, ResourceValidation(file, category, title, userId))
    ELSE StoreCalls(file, category, userId, putOk, urlOk, addOk)

UploadRun(fn, file, category, title, userId, end) ==
    [fn |-> fn, file |-> file, category |-> category, title |-> title,
     userId |-> userId, objectCalls |-> end.objectCalls,
     documentCalls |-> end.documentCalls, outcome |-> end.outcome,
     message |-> end.message, value |-> end.value]

\* One call of uploadGalleryImage, from the call to the settled promise.
uploadGalleryImage(file, category, title, userId, putOk, urlOk, addOk) ==
    /\ uploadRun.fn = "none"
    /\ uploadRun' = UploadRun("uploadGalleryImage", file, category, title, userId,
                              ImageUploadEnd(file, category, userId, putOk, urlOk, addOk))
    /\ UNCHANGED <<cacheVars, listenVars, galleryRun, aggRun, deleteRun, roleRun, lastEvent>>

\* One call of uploadResource, from the call to the settled promise.
uploadResource(file, category, title, userId, putOk, urlOk, addOk) ==
    /\ uploadRun.fn = "none"
    /\ uploadRun' = UploadRun("uploadResource", file, category, title, userId,
                              ResourceUploadEnd(file, category, title, userId,
                                                putOk, urlOk, addOk))
    /\ UNCHANGED <<cacheVars, listenVars, galleryRun, aggRun, deleteRun, roleRun, lastEvent>>

\* File arguments: none, or a file of a size at, just under or just over a
\* ceiling, of an image or another type, with some properties missing.
Files ==
    LET names == {Null, Some("kirtan.png")}
        sizes == {Null, Some(0), Some(ImageCeiling), Some(ImageCeiling + 1),
                  Some(ResourceCeiling), Some(ResourceCeiling + 1)}
        types == {Null, Some("image/png"), Some("image"), Some("application/pdf")}
    IN {Null} \cup { Some(File(name, size, type)) :
                       name \in names, size \in sizes, type \in types }

\* The string arguments, each undefined or given (the category also empty).
Arguments ==
    [category : {Null, Some(""), Some("mission")},
     title : {Null, Some("Sunday feast")},
     userId : {Null, Some("u1")}]

\* A page uploads one file.
UploadNext ==
    \/ /\ uploadRun.fn = "none"
       /\ \E file \in Files, given \in Arguments,
             putOk \in BOOLEAN, urlOk \in BOOLEAN, addOk \in BOOLEAN :
            uploadGalleryImage(file, given.category, given.title, given.userId,
                               putOk, urlOk, addOk)
    \/ /\ uploadRun.fn = "none"
       /\ \E file \in Files, given \in Arguments,
             putOk \in BOOLEAN, urlOk \in BOOLEAN, addOk \in BOOLEAN :
            uploadResource(file, given.category, given.title, given.userId,
                           putOk, urlOk, addOk)

(***************************************************************************)
(* fetchGalleryImages as an operation                                      *)
(***************************************************************************)

\* One invocation of fetchGalleryImages, on the documents matching category.
fetchGalleryImages(category, docs, orderedOk, retryOk) ==
    /\ galleryRun.outcome = "none"
    /\ galleryRun' = [category |-> category, docs |-> docs, orderedOk |-> orderedOk,
                      retryOk |-> retryOk] @@
                     GalleryFetchResult(docs, orderedOk, retryOk, MaxStamp + 1)
    /\ UNCHANGED <<cacheVars, listenVars, aggRun, uploadRun, deleteRun, roleRun, lastEvent>>

GalleryNext ==
    /\ galleryRun.outcome = "none"
    /\ \E category \in {Null, Some("mission")}, docs \in AllDocs,
          orderedOk \in BOOLEAN, retryOk \in BOOLEAN :
           fetchGalleryImages(category, docs, orderedOk, retryOk)

(***************************************************************************)
(* Delete helpers: deleteResource, deleteGalleryImage                      *)
(*                                                                         *)
(* Metadata documents and stored objects are numbered 1..MaxFiles; the     *)
(* caller names the document by its id and the object by its filename.     *)
(***************************************************************************)

MaxFiles == 2

IdleDeleteRun ==
    [fn |-> "none", id |-> 0, filename |-> 0, docs |-> {}, objects |-> {},
     docsAfter |-> {}, objectsAfter |-> {}, outcome |-> "none", value |-> <<>>]

\* await deleteDoc(ref): rejects when the store refuses or is unreachable;
\* deleting a document that does not exist succeeds.
DeleteDocRejects(docOk) == ~docOk

\* await deleteObject(storageRef): rejects when the store refuses or is
\* unreachable, and with storage/object-not-found when there is no object.
DeleteObjectRejects(objects, filename, objectOk) == ~objectOk \/ filename \notin objects

\* try { await deleteDoc(...); await deleteObject(...); return true }
\* catch (error) { console.error(...); throw error }
DeleteRun(fn, id, filename, docs, objects, docOk, objectOk) ==
    LET base == [fn |-> fn, id |-> id, filename |-> filename,
                 docs |-> docs, objects |-> objects,
                 docsAfter |-> docs, objectsAfter |-> objects,
                 outcome |-> "thrown", value |-> <<>>]
    IN IF DeleteDocRejects(docOk) THEN base
       ELSE IF DeleteObjectRejects(objects, filename, objectOk)
            THEN [base EXCEPT !.docsAfter = docs \ {id}]
            ELSE [base EXCEPT !.docsAfter = docs \ {id},
                              !.objectsAfter = objects \ {filename},
                              !.outcome = "returned", !.value = Some(TRUE)]

\* export async function deleteResource(resourceId, filename)
deleteResource ==
    /\ deleteRun.fn = "none"
    /\ \E id \in 1..MaxFiles, filename \in 1..MaxFiles,
          docs \in SUBSET (1..MaxFiles), objects \in SUBSET (1..MaxFiles),
          docOk \in BOOLEAN, objectOk \in BOOLEAN :
           deleteRun' = DeleteRun("deleteResource", id, filename, docs, objects,
                                  docOk, objectOk)
    /\ UNCHANGED <<cacheVars, listenVars, galleryRun, aggRun, uploadRun, roleRun, lastEvent>>

\* export async function deleteGalleryImage(imageId, filename)
deleteGalleryImage ==
    /\ deleteRun.fn = "none"
    /\ \E id \in 1..MaxFiles, filename \in 1..MaxFiles,
          docs \in SUBSET (1..MaxFiles), objects \in SUBSET (1..MaxFiles),
          docOk \in BOOLEAN, objectOk \in BOOLEAN :
           deleteRun' = DeleteRun("deleteGalleryImage", id, filename, docs, objects,
                                  docOk, objectOk)
    /\ UNCHANGED <<cacheVars, listenVars, galleryRun, aggRun, uploadRun, roleRun, lastEvent>>

DeleteNext ==
    \/ deleteResource
    \/ deleteGalleryImage

(***************************************************************************)
(* Roles: getUserRole, updateUserRole, checkAdminAccess                    *)
(*                                                                         *)
(* roleRun.users is the users collection of the store, roleRun.cached the  *)
(* users this process holds in dataCache.users and roleRun.valid the value *)
(* of isCacheValid(); the reports fetcher and the reports feed make the    *)
(* cache valid, time makes it invalid.                                     *)
(***************************************************************************)

MaxRoleWrites == 2

\* The user ids of the model.
Accounts == {"u1", "u2"}

\* A field of a user document: absent, a string, or the number 1.
AbsentField == [kind |-> "absent", text |-> ""]
Text(s) == [kind |-> "string", text |-> s]
NumberOne == [kind |-> "number", text |-> "1"]

\* JavaScript truthiness of a field.
Truthy(field) == field.kind = "number" \/ (field.kind = "string" /\ field.text # "")

Account(role, userRole, permission, level) ==
    [role |-> role, userRole |-> userRole, permission |-> permission, level |-> level]

\* User documents found in the users collection.
AccountPool ==
    { Account(Text("Admin"), AbsentField, AbsentField, AbsentField),
      Account(Text("member"), AbsentField, AbsentField, Text("admin")),
      Account(AbsentField, Text("SUPER_ADMIN"), AbsentField, AbsentField),
      Account(NumberOne, AbsentField, AbsentField, AbsentField) }

\* Values an administrator passes to updateUserRole as newRole.
NewRoles == {"admin", "user", "Super_Admin"}

\* The directory without any user: {} (also what fetchUsers returns from
\* its catch block).
NoUsers == [u \in Accounts |-> Null]

LowerCaseLetter(ch) ==
    CASE ch = "A" -> "a" [] ch = "B" -> "b" [] ch = "C" -> "c" [] ch = "D" -> "d"
      [] ch = "E" -> "e" [] ch = "F" -> "f" [] ch = "G" -> "g" [] ch = "H" -> "h"
      [] ch = "I" -> "i" [] ch = "J" -> "j" [] ch = "K" -> "k" [] ch = "L" -> "l"
      [] ch = "M" -> "m" [] ch = "N" -> "n" [] ch = "O" -> "o" [] ch = "P" -> "p"
      [] ch = "Q" -> "q" [] ch = "R" -> "r" [] ch = "S" -> "s" [] ch = "T" -> "t"
      [] ch = "U" -> "u" [] ch = "V" -> "v" [] ch = "W" -> "w" [] ch = "X" -> "x"
      [] ch = "Y" -> "y" [] ch = "Z" -> "z" [] OTHER -> ch

\* String.prototype.toLowerCase()
RECURSIVE toLowerCase(_)
toLowerCase(s) ==
    IF s = "" THEN ""
    ELSE LowerCaseLetter(SubSeq(s, 1, 1)) \o toLowerCase(SubSeq(s, 2, Len(s)))

\* userData.role || userData.userRole || userData.permission ||
\* userData.level || 'member'
RoleField(userData) ==
    IF Truthy(userData.role) THEN userData.role
    ELSE IF Truthy(userData.userRole) THEN userData.userRole
    ELSE IF Truthy(userData.permission) THEN userData.permission
    ELSE IF Truthy(userData.level) THEN userData.level
    ELSE Text("member")

\* getUserRole(userId) on the users fetchUsers() returned, called without
\* userEmail: 'user' for a user not found; role.toLowerCase() otherwise,
\* which throws for a role that is no string, and the catch returns 'user'.
getUserRole(users, userId) ==
    IF users[userId] = Null THEN "user"
    ELSE LET role == RoleField(Val(users[userId]))
         IN IF role.kind # "string" THEN "user"
            ELSE toLowerCase(role.text)

IdleRoleRun ==
    [users |-> NoUsers, cached |-> Null, valid |-> FALSE, writes |-> 0,
     op |-> "", userId |-> "", outcome |-> "", value |-> <<>>]

\* The fields describing the latest operation, reset by the other steps.
Quiet(run) == [run EXCEPT !.op = "", !.userId = "", !.outcome = "", !.value = <<>>]

\* fetchUsers() hits the cache (isCacheValid() && dataCache.users).
UsersHit(run) == run.valid /\ run.cached # Null

\* What fetchUsers() returns: the cached users, or the users of the store,
\* or {} when the query fails.
UsersReturned(run, storeOk) ==
    IF UsersHit(run) THEN Val(run.cached)
    ELSE IF storeOk THEN run.users
    ELSE NoUsers

\* dataCache.users after fetchUsers().
UsersCached(run, storeOk) ==
    IF ~UsersHit(run) /\ storeOk THEN Some(run.users) ELSE run.cached

\* export async function checkAdminAccess(userId)
checkAdminAccess(userId, storeOk) ==
    /\ LET userRole == getUserRole(UsersReturned(roleRun, storeOk), userId)
       IN roleRun' = [roleRun EXCEPT
                         !.cached = UsersCached(roleRun, storeOk),
                         !.op = "checkAdminAccess", !.userId = userId,
                         !.outcome = "returned",
                         !.value = Some(userRole = "admin" \/ userRole = "super_admin")]
    /\ UNCHANGED <<cacheVars, listenVars, galleryRun, aggRun, uploadRun, deleteRun, lastEvent>>

\* export async function updateUserRole(userId, newRole): updateDoc rejects
\* when the store refuses or the document does not exist, and the error is
\* rethrown; otherwise the role is written and clearCache() called.
updateUserRole(userId, newRole, storeOk) ==
    /\ roleRun.writes < MaxRoleWrites
    /\ IF storeOk /\ roleRun.users[userId] # Null
       THEN roleRun' = [roleRun EXCEPT
                           !.users[userId] = Some([Val(@) EXCEPT !.role = Text(newRole)]),
                           !.cached = Null, !.valid = FALSE,
                           !.writes = @ + 1,
                           !.op = "updateUserRole", !.userId = userId,
                           !.outcome = "returned", !.value = Some(TRUE)]
       ELSE roleRun' = [roleRun EXCEPT
                           !.writes = @ + 1,
                           !.op = "updateUserRole", !.userId = userId,
                           !.outcome = "thrown", !.value = <<>>]
    /\ UNCHANGED <<cacheVars, listenVars, galleryRun, aggRun, uploadRun, deleteRun, lastEvent>>

\* Another session (a sign-up, another administrator's browser) writes a
\* user document.
UserWrite(userId, account) ==
    /\ roleRun.writes < MaxRoleWrites
    /\ roleRun' = [Quiet(roleRun) EXCEPT !.users[userId] = Some(account),
                                         !.writes = @ + 1]
    /\ UNCHANGED <<cacheVars, listenVars, galleryRun, aggRun, uploadRun, deleteRun, lastEvent>>

\* The reports are stored (dataCache.lastFetch = Date.now()): the cache is valid.
ReportsStored ==
    /\ ~roleRun.valid
    /\ roleRun' = [Quiet(roleRun) EXCEPT !.valid = TRUE]
    /\ UNCHANGED <<cacheVars, listenVars, galleryRun, aggRun, uploadRun, deleteRun, lastEvent>>

\* CACHE_DURATION has passed since lastFetch: the cache is invalid.
CacheExpires ==
    /\ roleRun.valid
    /\ roleRun' = [Quiet(roleRun) EXCEPT !.valid = FALSE]
    /\ UNCHANGED <<cacheVars, listenVars, galleryRun, aggRun, uploadRun, deleteRun, lastEvent>>

RoleNext ==
    \/ \E userId \in Accounts, storeOk \in BOOLEAN : checkAdminAccess(userId, storeOk)
    \/ \E userId \in Accounts, newRole \in NewRoles, storeOk \in BOOLEAN :
           updateUserRole(userId, newRole, storeOk)
    \/ \E userId \in Accounts, account \in AccountPool : UserWrite(userId, account)
    \/ ReportsStored
    \/ CacheExpires
(***************************************************************************)
(* Initial state and specifications                                        *)
(***************************************************************************)

CacheInit ==
    /\ now = 1
    /\ ticks = 0
    /\ store = [c \in Collections |-> 0]
    /\ writes = 0
    /\ dataCache = EmptyCache
    /\ calls = [i \in 1..MaxCalls |-> IdleCall]
    /\ storedAt = [c \in Collections |-> 0]

ListenInit ==
    /\ listener = [f \in Feeds |-> IdleListener]
    /\ pushes = 0

OtherInit ==
    /\ galleryRun = IdleGalleryRun
    /\ aggRun = IdleAggRun
    /\ uploadRun = IdleUploadRun
    /\ deleteRun = IdleDeleteRun
    /\ roleRun = IdleRoleRun

Init ==
    /\ CacheInit
    /\ ListenInit
    /\ OtherInit
    /\ lastEvent = NoEvent

\* The cache under one caller at a time, the clock, other clients' writes and
\* the reports feed.
Next ==
    \/ fetchActivityReports(1)
    \/ fetchPreachingCategories(1)
    \/ fetchUsers(1)
    \/ \E ok \in BOOLEAN : StoreRespond(1, ok)
    \/ FetchResume(1)
    \/ clearCache
    \/ \E d \in TickSteps : Tick(d)
    \/ \E c \in Collections : StoreWrite(c, 1)
    \/ \E ok \in BOOLEAN : listenToActivityReports(ok)
    \/ ReportsPush

vars == <<cacheVars, listenVars, otherVars, lastEvent>>

Spec == Init /\ [][Next]_vars

\* The three live feeds, with the reports collection written by other clients.
ListenNext ==
    \/ \E ok \in BOOLEAN : listenToActivityReports(ok)
    \/ \E ok \in BOOLEAN : listenToResources(ok)
    \/ \E ok \in BOOLEAN, orderByOk \in BOOLEAN : listenToGalleryImages(ok, orderByOk)
    \/ ReportsPush
    \/ \E docs \in FeedDocs : ResourcesPush(docs)
    \/ \E docs \in FeedDocs : GalleryPush(docs)
    \/ \E f \in Feeds, indexError \in BOOLEAN, fallbackOk \in BOOLEAN :
           SubscriptionError(f, indexError, fallbackOk)
    \/ \E docs \in FeedDocs : GalleryFallbackPush(docs)
    \/ GalleryFallbackError
    \/ \E f \in Feeds, docs \in FeedDocs, orderedOk \in BOOLEAN, retryOk \in BOOLEAN :
           OneShotSettle(f, docs, orderedOk, retryOk)
    \/ \E f \in Feeds : Unsubscribe(f)
    \/ \E k \in WriteSteps : StoreWrite("activityReports", k)

SpecListen == Init /\ [][ListenNext]_vars

\* fetchGalleryImages on its own.
SpecGallery == Init /\ [][GalleryNext]_vars

\* The aggregation engine alone: one call on arbitrary store contents.
SpecAgg == Init /\ [][AggNext]_vars

\* The upload helpers alone: one call with arbitrary arguments and stores.
SpecUpload == Init /\ [][UploadNext]_vars

\* The delete helpers alone: one call on arbitrary stores.
SpecDelete == Init /\ [][DeleteNext]_vars

\* The role operations of one session, with other sessions writing users.
SpecRole == Init /\ [][RoleNext]_vars

(***************************************************************************)
(* Properties of the cache layer and the fetchers (checked under Spec)     *)
(***************************************************************************)

\* A step in which a fetcher was called: it returned the cached collection
\* or sent its query.
CalledFetcher(c) ==
    /\ lastEvent' # lastEvent
    /\ lastEvent'.op = c
    /\ lastEvent'.outcome \in {"cached", "query"}

AllAbsent(cache) ==
    /\ \A c \in Collections : cache[c] = Null
    /\ cache.lastFetch = Null

\* C1: a fetcher returns the cached collection, without querying the store,
\* exactly when that collection is cached and strictly less than 5 minutes
\* (300000 ms) have passed since lastFetch; otherwise it queries the store.
C1_CachedIffFresh ==
    \A c \in Collections :
        (lastEvent.op = c /\ lastEvent.outcome \in {"cached", "query"}) =>
            /\ (lastEvent.outcome = "cached") <=>
                   /\ dataCache[c] # Null
                   /\ dataCache.lastFetch # Null
                   /\ now - Val(dataCache.lastFetch) < 300000
            /\ (lastEvent.outcome = "cached") => lastEvent.value = Val(dataCache[c])

\* A fetcher queried the store although its collection is cached, because
\* exactly 5 minutes have passed since lastFetch.
C1_Witness ==
    /\ lastEvent.op \in Collections
    /\ lastEvent.outcome = "query"
    /\ dataCache[lastEvent.op] # Null
    /\ dataCache.lastFetch # Null
    /\ now - Val(dataCache.lastFetch) = 300000

\* C2: clearCache() leaves the three collections and lastFetch absent and the
\* cache invalid, and a fetcher called on the cache as clearCache() left it
\* queries the store instead of returning a cached collection.
C2_ClearThenRequery ==
    [][ /\ (lastEvent' # lastEvent /\ lastEvent'.op = "clearCache") =>
            /\ AllAbsent(dataCache')
            /\ ~(dataCache'.lastFetch # Null
                 /\ now' - Val(dataCache'.lastFetch) < 300000)
        /\ \A c \in Collections :
            (AllAbsent(dataCache) /\ CalledFetcher(c)) =>
                lastEvent'.outcome = "query"
      ]_vars

\* clearCache() has just dropped a cache that held users and a lastFetch.
C2_Witness ==
    /\ lastEvent.op = "clearCache"
    /\ lastEvent.outcome = "cleared"
    /\ AllAbsent(dataCache)
    /\ storedAt["users"] = 0
    /\ store["users"] > 0

\* C3: lastFetch changes only when the reports collection is stored (by a
\* successful fetchActivityReports query or a reports push) or by
\* clearCache; fetchPreachingCategories and fetchUsers store what they
\* fetched and leave lastFetch as it was, whether they succeed or fail.
C3_LastFetchFrame ==
    [][ /\ (dataCache'.lastFetch # dataCache.lastFetch) =>
            \/ lastEvent'.op = "clearCache"
            \/ /\ lastEvent'.op = "activityReports"
               /\ lastEvent'.outcome \in {"fetched", "callback"}
               /\ dataCache'.activityReports = Some(lastEvent'.value)
        /\ \A c \in {"preachingCategories", "users"} :
            (lastEvent' # lastEvent /\ lastEvent'.op = c) =>
                /\ dataCache'.lastFetch = dataCache.lastFetch
                /\ (lastEvent'.outcome = "fetched") =>
                       dataCache'[c] = Some(lastEvent'.value)
      ]_vars

\* fetchUsers has just stored users later than lastFetch, which it left alone.
C3_Witness ==
    /\ lastEvent.op = "users"
    /\ lastEvent.outcome = "fetched"
    /\ dataCache.lastFetch # Null
    /\ storedAt["users"] > Val(dataCache.lastFetch)

\* C4 as stated: the snapshot is either fully absent, or holds all three
\* collections, each stored at lastFetch.
C4_AllOrNothing ==
    \/ AllAbsent(dataCache)
    \/ /\ \A c \in Collections : dataCache[c] # Null
       /\ dataCache.lastFetch # Null
       /\ \A c \in Collections : storedAt[c] = Val(dataCache.lastFetch)

\* C4 as amended: lastFetch is present exactly when the reports collection
\* is, and is then the time the reports were stored; the snapshot is fully
\* absent right after clearCache().  Categories and users are present or
\* absent independently, stored at times of their own.
C4_ReportsCarryLastFetch ==
    /\ (dataCache.activityReports = Null) <=> (dataCache.lastFetch = Null)
    /\ (dataCache.lastFetch # Null) =>
           storedAt["activityReports"] = Val(dataCache.lastFetch)
    /\ (lastEvent.op = "clearCache") => AllAbsent(dataCache)

\* A partial, mixed-age snapshot: reports and users present, categories
\* absent, users stored later than lastFetch.
C4_Witness ==
    /\ dataCache.activityReports # Null
    /\ dataCache.users # Null
    /\ dataCache.preachingCategories = Null
    /\ dataCache.lastFetch # Null
    /\ storedAt["users"] > Val(dataCache.lastFetch)

\* C5: the fetchers never throw; when the store query fails the fetcher
\* returns an empty sequence (reports) or an empty mapping (categories,
\* users).
C5_FetchersNeverThrow ==
    [][ \A i \in 1..MaxCalls :
            (calls[i].pc = "responded" /\ calls'[i].pc = "idle") =>
                /\ lastEvent'.op = calls[i].coll
                /\ lastEvent'.outcome \in {"fetched", "failed"}
                /\ (calls[i].resp = "error") =>
                       /\ lastEvent'.outcome = "failed"
                       /\ Len(lastEvent'.value) = 0
      ]_vars

\* fetchUsers has just returned its empty fallback after a failed query.
C5_Witness ==
    /\ lastEvent.op = "users"
    /\ lastEvent.outcome = "failed"
    /\ lastEvent.value = <<>>

(***************************************************************************)
(* Properties of the change feeds (checked under SpecListen)               *)
(***************************************************************************)

\* C6: on each push of the reports feed, the sequence written to the cache
\* and handed to the callback is the sequence fetchActivityReports returns
\* for the same store contents (same records, same order), however many
\* reports the store holds.
C6_PushEqualsFetch ==
    (lastEvent.op = "activityReports" /\ lastEvent.outcome = "callback") =>
        /\ lastEvent.value = FetchedValue("activityReports", store["activityReports"])
        /\ dataCache.activityReports = Some(lastEvent.value)

\* C7: for each of the three listeners, a failed subscription has led to
\* exactly one one-shot fetch, and to exactly one callback invocation once
\* that fetch has settled (none before).
C7_ErrorFallsBackOnce ==
    \A f \in Feeds :
        (listener[f].sub = "failed") =>
            /\ listener[f].fetches = 1
            /\ (listener[f].fetch = "pending") => listener[f].callbacks = 0
            /\ (listener[f].fetch = "done") => listener[f].callbacks = 1

\* C8: once the handle a listen operation returned has been invoked, the
\* registered callback is not invoked again, be it by a fallback
\* subscription or by a one-shot fetch started before the cancellation.
\* (Unsubscribe resets lastEvent, so a callback event seen with the handle
\* invoked is an invocation that came after it.)
C8_NoCallbackAfterCancel ==
    \A f \in Feeds :
        ~(lastEvent.op = f /\ lastEvent.outcome = "callback" /\ listener[f].cancelled)

(***************************************************************************)
(* Properties of fetchGalleryImages (checked under SpecGallery)             *)
(***************************************************************************)

\* When an image was created: its store timestamp, or for want of one the
\* upload instant recorded with it (fetchGalleryImages fills a missing one in).
CreationTime(image) ==
    IF image.createdAt # Null THEN Val(image.createdAt) ELSE Val(image.uploadedAt)

\* C10: when the ordered query of fetchGalleryImages fails exactly one retry
\* (the unordered query) is issued; the images returned are newest first by
\* creation time whether or not the ordered query succeeded; when the retry
\* fails too, an empty sequence is returned and nothing is thrown.
C10_RetryOnceSortedOrEmpty ==
    (galleryRun.outcome # "none") =>
        /\ galleryRun.outcome = "returned"
        /\ galleryRun.queries = IF galleryRun.orderedOk THEN 1 ELSE 2
        /\ (~galleryRun.orderedOk /\ ~galleryRun.retryOk) => galleryRun.images = <<>>
        /\ \A i, j \in 1..Len(galleryRun.images) :
               i < j => CreationTime(galleryRun.images[i])
                            >= CreationTime(galleryRun.images[j])
        /\ (~galleryRun.orderedOk /\ galleryRun.retryOk) =>
               {galleryRun.images[i].id : i \in 1..Len(galleryRun.images)}
                   = {galleryRun.docs[i].id : i \in 1..Len(galleryRun.docs)}

\* The ordered query failed, the retry returned three images oldest first,
\* and they came back newest first.
C10_Witness ==
    /\ galleryRun.outcome = "returned"
    /\ ~galleryRun.orderedOk
    /\ galleryRun.retryOk
    /\ galleryRun.queries = 2
    /\ Len(galleryRun.docs) = 3
    /\ \A i \in 1..3 : galleryRun.docs[i].createdAt = Some(i)
    /\ \A i \in 1..3 : galleryRun.images[i].createdAt = Some(4 - i)


\* A report of the sequence holds a contact that is null.
HoldsNullContact(reports) ==
    \E i \in 1..Len(reports) :
        /\ reports[i].contacts.kind = "array"
        /\ \E k \in 1..Len(reports[i].contacts.items) :
             reports[i].contacts.items[k] = NullContact

\* One of the first limitCount reports has no date and a createdAt whose
\* toDate cannot be called.
HoldsBrokenStamp(reports, limitCount) ==
    \E i \in 1..Min(LimitOf(limitCount), Len(reports)) :
        /\ reports[i].date = Null
        /\ reports[i].createdAt = ToDateMap

\* C9: calculatePreachingImpact, getRecentReports, getChartData and
\* getPieChartData never throw, whatever the store answers and whatever
\* shape the records have: every call returns, and a call whose computation
\* fails on a record returns the fallback of its function (all-zero totals,
\* no rows).  Nothing makes the computation of the two chart functions fail,
\* so they always return the series and the distribution they computed.
C9_AggregationsNeverThrow ==
    aggRun.fn # "none" =>
        /\ aggRun.outcome = "returned"
        /\ aggRun.fn = "calculatePreachingImpact" /\ HoldsNullContact(aggRun.reports)
              => aggRun.value = ZeroImpact
        /\ aggRun.fn = "getRecentReports"
              /\ HoldsBrokenStamp(aggRun.reports, aggRun.limitCount)
              => aggRun.value = <<>>
        /\ aggRun.fn = "getChartData"
              => /\ Len(aggRun.value.regions) <= 5
                 /\ Len(aggRun.value.booksData) = Len(aggRun.value.regions)
        /\ aggRun.fn = "getPieChartData"
              => \A i \in 1..Len(aggRun.value) : aggRun.value[i].value >= 0

\* A call of calculatePreachingImpact on reports one of which holds a null
\* contact has returned the all-zero totals.
C9_Witness ==
    /\ aggRun.fn = "calculatePreachingImpact"
    /\ HoldsNullContact(aggRun.reports)
    /\ Len(aggRun.reports) = 2
    /\ aggRun.outcome = "returned"
    /\ aggRun.value = ZeroImpact


(***************************************************************************)
(* Properties of the upload helpers (checked under SpecUpload)             *)
(***************************************************************************)

\* The ceiling of the helper that ran.
CeilingOf(fn) == IF fn = "uploadGalleryImage" THEN ImageCeiling ELSE ResourceCeiling

\* A required parameter of the call is missing: the file, the category or
\* the user id, and for a resource the title.
RequiredMissing(run) ==
    \/ run.file = Null
    \/ ~TruthyStr(run.category)
    \/ ~TruthyStr(run.userId)
    \/ run.fn = "uploadResource" /\ ~TruthyStr(run.title)

\* The file is larger than the ceiling of the helper.
OverCeiling(run) ==
    /\ run.file # Null
    /\ Val(run.file).size # Null
    /\ Val(Val(run.file).size) > CeilingOf(run.fn)

\* The file given to uploadGalleryImage has no type starting with image/.
NotAnImage(run) ==
    /\ run.fn = "uploadGalleryImage"
    /\ run.file # Null
    /\ \/ Val(run.file).type = Null
       \/ ~StartsWith(Val(Val(run.file).type), "image/")

\* C11: uploadGalleryImage and uploadResource reject, without any call to
\* the object store or the document store, every call in which a required
\* parameter is missing, the file is larger than the ceiling (5 MB for
\* images, 50 MB for resources) or, for images, the type does not start
\* with image/; a named file of at most the ceiling (exactly the ceiling
\* included) that passes the other checks is handed to the object store.
C11_InvalidUploadRejected ==
    uploadRun.fn # "none" =>
        IF RequiredMissing(uploadRun) \/ OverCeiling(uploadRun) \/ NotAnImage(uploadRun)
        THEN /\ uploadRun.outcome = "thrown"
             /\ uploadRun.objectCalls = 0
             /\ uploadRun.documentCalls = 0
        ELSE Val(uploadRun.file).name # Null => uploadRun.objectCalls >= 1

\* An image one byte over the ceiling, with every parameter given, was
\* rejected before any store call.
C11_Witness ==
    /\ uploadRun.fn = "uploadGalleryImage"
    /\ ~RequiredMissing(uploadRun)
    /\ ~NotAnImage(uploadRun)
    /\ Val(uploadRun.file).size = Some(ImageCeiling + 1)
    /\ uploadRun.outcome = "thrown"
    /\ uploadRun.message = "Upload failed: File size exceeds 5MB limit"
    /\ uploadRun.objectCalls = 0
    /\ uploadRun.documentCalls = 0


(***************************************************************************)
(* Properties of the aggregation engine (checked under SpecAgg)            *)
(***************************************************************************)

\* The call ran its computation to the end: it did not fall back.
Computed(run) ==
    /\ run.fn # "none"
    /\ run.fn = "calculatePreachingImpact" => ~HoldsNullContact(run.reports)
    /\ run.fn = "getRecentReports" => ~HoldsBrokenStamp(run.reports, run.limitCount)

\* The book count of a report as stated: the number itself, the sum of the
\* three sizes with a missing size counted as 0, or 0 without the field.
StatedBookCount(report) ==
    LET Size(x) == IF x = Null THEN 0 ELSE Val(x)
        b == report.booksDistributed
    IN CASE b.kind = "number" -> b.n
         [] b.kind = "object" -> Size(b.big) + Size(b.medium) + Size(b.small)
         [] b.kind = "absent" -> 0

\* The reports of a sequence written by an author of the given region.
ReportsOfRegion(reports, users, region) ==
    SelectSeq(reports, LAMBDA r : RegionOf(r, users) = region)

\* C12: impact totals, enriched rows and regional series use the same book
\* count of a report: booksDistributed itself when a number, big + medium +
\* small (a missing key counting 0) when an object, 0 when absent;
\* totalBooksDistributed is the sum of that count over all reports, a row
\* carries the count of its report and a region the sum over its reports.
C12_BookCount ==
    Computed(aggRun) =>
        /\ aggRun.fn = "calculatePreachingImpact" =>
              aggRun.value.totalBooksDistributed
                  = Sum([i \in 1..Len(aggRun.reports) |-> StatedBookCount(aggRun.reports[i])])
        /\ aggRun.fn = "getRecentReports" =>
              \A i \in 1..Len(aggRun.value) :
                  aggRun.value[i].books = StatedBookCount(aggRun.reports[i])
        /\ aggRun.fn = "getChartData" =>
              \A i \in 1..Len(aggRun.value.regions) :
                  LET mine == ReportsOfRegion(aggRun.reports, aggRun.users,
                                              aggRun.value.regions[i])
                  IN aggRun.value.booksData[i]
                         = Sum([k \in 1..Len(mine) |-> StatedBookCount(mine[k])])

\* The totals of a report with a number and a report with sizes (one of
\* them missing) have been returned: 4 + (1 + 0 + 2) books.
C12_Witness ==
    /\ aggRun.fn = "calculatePreachingImpact"
    /\ Len(aggRun.reports) = 2
    /\ aggRun.reports[1].booksDistributed = NumBooks(4)
    /\ aggRun.reports[2].booksDistributed = SizedBooks(Some(1), Null, Some(2))
    /\ aggRun.value.totalBooksDistributed = 7


\* The new contacts of a report as stated: among a sequence of contacts the
\* entries marked new, or all of them when none is marked; without a
\* sequence the newContacts field when set, else 0.
StatedNewContacts(report) ==
    LET items == report.contacts.items
        marked == { k \in 1..Len(items) :
                      \/ items[k].isNewContact
                      \/ items[k].isNew
                      \/ items[k].contactType = "new" }
    IN IF report.contacts.kind = "array"
       THEN IF marked = {} THEN Len(items) ELSE Cardinality(marked)
       ELSE IF report.newContacts # Null THEN Val(report.newContacts)
       ELSE 0

\* C13: livesTouched is the sum over the reports of the new-contact count:
\* for a contacts sequence the number of entries with isNewContact === true,
\* isNew === true or contactType === 'new', or the full length when that
\* number is zero; otherwise newContacts when set; otherwise 0.
C13_NewContactCount ==
    (Computed(aggRun) /\ aggRun.fn = "calculatePreachingImpact") =>
        aggRun.value.livesTouched
            = Sum([i \in 1..Len(aggRun.reports) |-> StatedNewContacts(aggRun.reports[i])])

\* Totals were returned for a report with one marked contact out of three
\* and a report with two unmarked contacts: 1 + 2 lives touched.
C13_Witness ==
    /\ aggRun.fn = "calculatePreachingImpact"
    /\ Len(aggRun.reports) = 2
    /\ aggRun.reports[1].id = "r1"
    /\ Len(aggRun.reports[1].contacts.items) = 3
    /\ aggRun.reports[2].contacts
           = ContactArray(<<Contact(FALSE, FALSE, ""), Contact(FALSE, FALSE, "")>>)
    /\ aggRun.value.livesTouched = 3


\* The prasadam count of a report as stated: prasadamServed when the field
\* is present, whatever its value; else floor(contacts.length * 1.5) when
\* contacts is present; else 0.
StatedPrasadam(report) ==
    IF report.prasadamServed # Null THEN Val(report.prasadamServed)
    ELSE IF report.contacts.kind # "absent" THEN (Len(report.contacts.items) * 3) \div 2
    ELSE 0

StatedPrasadams(reports) == [i \in 1..Len(reports) |-> StatedPrasadam(reports[i])]

\* C14: impact totals, enriched rows and regional series use the same
\* prasadam count of a report: prasadamServed whenever the field is present
\* (the value 0 included), otherwise floor(contacts.length * 1.5) when
\* contacts is present, otherwise 0.  (The total of the impact view shows
\* the sum of the counts when that sum is not zero.)
C14_PrasadamCount ==
    Computed(aggRun) =>
        /\ aggRun.fn = "getRecentReports" =>
              \A i \in 1..Len(aggRun.value) :
                  aggRun.value[i].prasadam = StatedPrasadam(aggRun.reports[i])
        /\ aggRun.fn = "getChartData" =>
              \A i \in 1..Len(aggRun.value.regions) :
                  aggRun.value.prasadamData[i]
                      = Sum(StatedPrasadams(ReportsOfRegion(aggRun.reports, aggRun.users,
                                                            aggRun.value.regions[i])))
        /\ (aggRun.fn = "calculatePreachingImpact"
              /\ Sum(StatedPrasadams(aggRun.reports)) # 0) =>
              aggRun.value.totalPrasadamServed = Sum(StatedPrasadams(aggRun.reports))

\* C15: totalPrasadamServed is the sum of the per-report prasadam counts
\* when that sum is not zero, and livesTouched * 2 exactly when it is zero.
C15_PrasadamTotal ==
    (Computed(aggRun) /\ aggRun.fn = "calculatePreachingImpact") =>
        aggRun.value.totalPrasadamServed
            = IF Sum(StatedPrasadams(aggRun.reports)) # 0
              THEN Sum(StatedPrasadams(aggRun.reports))
              ELSE aggRun.value.livesTouched * 2

\* The temples of the directory users who wrote one of the reports.
StatedCities(reports, users) ==
    { Val(users[u].temple) :
        u \in { v \in 1..Len(users) :
                  /\ TruthyStr(users[v].temple)
                  /\ \E i \in 1..Len(reports) :
                       reports[i].createdBy = Some(users[v].id) } }

\* C16: activePreachers is the number of entries of the user directory,
\* whoever wrote the reports; citiesCovered is the number of distinct
\* temples of the directory users who wrote at least one report; a report
\* whose author is not in the directory counts in totalReports and adds
\* nothing to citiesCovered.
C16_PreachersAndCities ==
    (Computed(aggRun) /\ aggRun.fn = "calculatePreachingImpact") =>
        /\ aggRun.value.activePreachers = Len(aggRun.users)
        /\ aggRun.value.citiesCovered
               = Cardinality(StatedCities(aggRun.reports, aggRun.users))
        /\ aggRun.value.totalReports = Len(aggRun.reports)

\* Totals were returned for a report of a directory user and a report
\* whose author the five-user directory does not hold: two reports, five
\* preachers, one city.
C16_Witness ==
    /\ aggRun.fn = "calculatePreachingImpact"
    /\ Len(aggRun.users) = 5
    /\ Len(aggRun.reports) = 2
    /\ aggRun.reports[1].createdBy = Some("u9")
    /\ aggRun.reports[2].createdBy = Some("u1")
    /\ aggRun.value.totalReports = 2
    /\ aggRun.value.activePreachers = 5
    /\ aggRun.value.citiesCovered = 1


\* The rearrangements of a sequence.
Rearranged(seq) ==
    { [i \in 1..Len(seq) |-> seq[p[i]]] :
        p \in { q \in [1..Len(seq) -> 1..Len(seq)] :
                  \A i, j \in 1..Len(seq) : i # j => q[i] # q[j] } }

\* C17: calculatePreachingImpact returns the same six totals for every
\* rearrangement of the report sequence it ran on.
C17_OrderIndependent ==
    aggRun.fn = "calculatePreachingImpact" =>
        \A reports \in Rearranged(aggRun.reports) :
            ImpactResult(reports, aggRun.users)
                = [outcome |-> aggRun.outcome, value |-> aggRun.value]

\* Totals were returned for two reports with different counts and authors
\* of different temples, the report with book sizes first.
C17_Witness ==
    /\ aggRun.fn = "calculatePreachingImpact"
    /\ Len(aggRun.users) = 5
    /\ Len(aggRun.reports) = 2
    /\ aggRun.reports[1].id = "r2"
    /\ aggRun.reports[2].id = "r1"
    /\ aggRun.value.totalBooksDistributed = 7
    /\ aggRun.value.citiesCovered = 2

\* C18: getRecentReports(N) returns min(N, number of reports) rows, the
\* i-th row being the row of the i-th fetched report; N is 10 when the
\* caller gives none.
C18_FirstRows ==
    (Computed(aggRun) /\ aggRun.fn = "getRecentReports") =>
        LET N == IF aggRun.limitCount = Null THEN 10 ELSE Val(aggRun.limitCount)
        IN /\ Len(aggRun.value) = Min(N, Len(aggRun.reports))
           /\ \A i \in 1..Len(aggRun.value) : aggRun.value[i].id = aggRun.reports[i].id

\* getRecentReports() without argument ran on eleven reports and returned
\* the rows of the first ten.
C18_Witness ==
    /\ aggRun.fn = "getRecentReports"
    /\ aggRun.limitCount = Null
    /\ Len(aggRun.reports) = 11
    /\ Len(aggRun.value) = 10
    /\ aggRun.value[10].id = "p10"


\* The directory entry with the given id, where there is one.
EntriesOf(directory, id) ==
    { k \in 1..Len(directory) : id = Some(directory[k].id) }

\* The preacher of a row as stated: displayName, then name, then email of
\* the author's directory entry, then "Unknown".
StatedPreacher(report, users) ==
    LET found == EntriesOf(users, report.createdBy)
        user == users[CHOOSE k \in found : TRUE]
        Set(x) == x # Null /\ Val(x) # ""
    IN IF found = {} THEN "Unknown"
       ELSE IF Set(user.displayName) THEN Val(user.displayName)
       ELSE IF Set(user.name) THEN Val(user.name)
       ELSE IF Set(user.email) THEN Val(user.email)
       ELSE "Unknown"

\* The rows name the category of a known categoryId by its categoryName
\* and the preacher by displayName, name, email or "Unknown".
RowsNameKnownEntries ==
    \A i \in 1..Len(aggRun.value) :
        LET report == aggRun.reports[i]
            found == EntriesOf(aggRun.categories, report.categoryId)
            category == aggRun.categories[CHOOSE k \in found : TRUE]
        IN /\ (found # {} /\ TruthyStr(category.categoryName)) =>
                  aggRun.value[i].activity = Val(category.categoryName)
           /\ aggRun.value[i].preacher = StatedPreacher(report, aggRun.users)

\* C19 as stated: in an enriched row a known categoryId yields the
\* categoryName of the category and a known createdBy the displayName of
\* the user (then name, then email, then "Unknown"); a report whose
\* categoryId is unknown yields the activity "Unknown Activity".
C19_UnknownCategoryIsUnknownActivity ==
    (Computed(aggRun) /\ aggRun.fn = "getRecentReports") =>
        /\ RowsNameKnownEntries
        /\ \A i \in 1..Len(aggRun.value) :
               EntriesOf(aggRun.categories, aggRun.reports[i].categoryId) = {} =>
                   aggRun.value[i].activity = "Unknown Activity"

\* C19 (amended): as stated for known entries; a report whose categoryId is
\* unknown yields its own categoryName when it carries one and "Unknown
\* Activity" when it carries none.
C19_UnknownCategoryUsesReportName ==
    (Computed(aggRun) /\ aggRun.fn = "getRecentReports") =>
        /\ RowsNameKnownEntries
        /\ \A i \in 1..Len(aggRun.value) :
               EntriesOf(aggRun.categories, aggRun.reports[i].categoryId) = {} =>
                   aggRun.value[i].activity
                       = IF TruthyStr(aggRun.reports[i].categoryName)
                         THEN Val(aggRun.reports[i].categoryName)
                         ELSE "Unknown Activity"

\* Rows were returned for a report of an unknown category that carries the
\* categoryName "Festival" and for a report of a known category and author.
C19_Witness ==
    /\ aggRun.fn = "getRecentReports"
    /\ Len(aggRun.categories) = 3
    /\ Len(aggRun.users) = 5
    /\ Len(aggRun.value) = 2
    /\ aggRun.reports[1].categoryId = Some("c9")
    /\ aggRun.value[1].activity = "Festival"
    /\ aggRun.value[1].preacher = "Unknown"
    /\ aggRun.value[2].activity = "Book Distribution"
    /\ aggRun.value[2].preacher = "Gopal"

\* The calendar day of an instant of the first days of the epoch.
StatedDay(t) ==
    CASE t \div SecondsPerDay = 0 -> "1970-01-01"
      [] t \div SecondsPerDay = 1 -> "1970-01-02"
      [] t \div SecondsPerDay = 2 -> "1970-01-03"

\* C20: the display date of a row is report.date when set; otherwise the
\* day (YYYY-MM-DD) of the store timestamp, be it a native time value or an
\* ISO-8601 string; "N/A" only for a report with neither date nor timestamp.
C20_DisplayDate ==
    (Computed(aggRun) /\ aggRun.fn = "getRecentReports") =>
        \A i \in 1..Len(aggRun.value) :
            LET report == aggRun.reports[i]
            IN aggRun.value[i].date
                   = IF TruthyStr(report.date) THEN Val(report.date)
                     ELSE IF report.createdAt.kind \in {"timestamp", "string"}
                          THEN StatedDay(report.createdAt.t)
                     ELSE "N/A"


\* The category name of a report as stated: the categoryName of its
\* category, then its own categoryName, then the name of its category,
\* then the literal of the view.
StatedCategoryName(report, categories, literal) ==
    LET found == EntriesOf(categories, report.categoryId)
        category == IF found = {} THEN EmptyCategory
                    ELSE categories[CHOOSE k \in found : TRUE]
    IN IF TruthyStr(category.categoryName) THEN Val(category.categoryName)
       ELSE IF TruthyStr(report.categoryName) THEN Val(report.categoryName)
       ELSE IF TruthyStr(category.name) THEN Val(category.name)
       ELSE literal

\* C21: rows and distribution resolve the category name of a report with
\* the same precedence (category.categoryName, the report's categoryName,
\* category.name) and differ in the literal only: every row carries the
\* stated name with "Unknown Activity", and every entry of the distribution
\* counts the reports whose stated name with "Other" is the entry's name.
C21_SamePrecedence ==
    /\ (Computed(aggRun) /\ aggRun.fn = "getRecentReports") =>
          \A i \in 1..Len(aggRun.value) :
              aggRun.value[i].activity
                  = StatedCategoryName(aggRun.reports[i], aggRun.categories,
                                       "Unknown Activity")
    /\ (aggRun.fn = "getPieChartData" /\ aggRun.reports # <<>>) =>
          \A k \in 1..Len(aggRun.value) :
              aggRun.value[k].value
                  = Cardinality({ i \in 1..Len(aggRun.reports) :
                                    StatedCategoryName(aggRun.reports[i], aggRun.categories,
                                                       "Other") = aggRun.value[k].name })


\* The group of a report as stated: the temple of its author, "Unknown"
\* when the directory has no such author or the author no temple.
StatedRegion(report, users) ==
    LET found == EntriesOf(users, report.createdBy)
    IN IF found # {} /\ TruthyStr(users[CHOOSE k \in found : TRUE].temple)
       THEN Val(users[CHOOSE k \in found : TRUE].temple)
       ELSE "Unknown"

\* The positions at which a group is met for the first time.
FirstMet(reports, users) ==
    { i \in 1..Len(reports) :
        \A j \in 1..(i - 1) :
            StatedRegion(reports[j], users) # StatedRegion(reports[i], users) }

\* C22: getChartData returns, in the order in which they are first met
\* while iterating the reports, the first 5 distinct temples of the
\* authors ("Unknown" for a missing author or temple); the three series
\* are as long as regions, events holding the number of reports of the
\* region and books the sum of their book counts.
C22_FirstFiveRegions ==
    aggRun.fn = "getChartData" =>
        LET first == FirstMet(aggRun.reports, aggRun.users)
            regions == aggRun.value.regions
            Of(region) == { i \in 1..Len(aggRun.reports) :
                              StatedRegion(aggRun.reports[i], aggRun.users) = region }
        IN /\ Len(regions) = Min(5, Cardinality(first))
           /\ \A k \in 1..Len(regions) :
                  \E i \in first :
                      /\ Cardinality({ j \in first : j <= i }) = k
                      /\ regions[k] = StatedRegion(aggRun.reports[i], aggRun.users)
           /\ Len(aggRun.value.booksData) = Len(regions)
           /\ Len(aggRun.value.prasadamData) = Len(regions)
           /\ Len(aggRun.value.eventsData) = Len(regions)
           /\ \A k \in 1..Len(regions) :
                  /\ aggRun.value.eventsData[k] = Cardinality(Of(regions[k]))
                  /\ aggRun.value.booksData[k]
                         = Sum(BookCounts(ReportsOfRegion(aggRun.reports, aggRun.users,
                                                          regions[k])))


\* C23: getPieChartData run on at least one report returns exactly the
\* names reports are counted under, each once with its number of reports,
\* the larger numbers first; run on no report it returns every category of
\* the directory with value 0; so it returns nothing only when there are
\* neither reports nor categories.
C23_Distribution ==
    aggRun.fn = "getPieChartData" =>
        LET pie == aggRun.value
            reports == aggRun.reports
            categories == aggRun.categories
            Under(name) == { i \in 1..Len(reports) : PieName(reports[i], categories) = name }
        IN /\ reports # <<>> =>
                /\ { pie[k].name : k \in 1..Len(pie) }
                       = { PieName(reports[i], categories) : i \in 1..Len(reports) }
                /\ \A k, l \in 1..Len(pie) : k # l => pie[k].name # pie[l].name
                /\ \A k \in 1..Len(pie) : pie[k].value = Cardinality(Under(pie[k].name))
                /\ \A k, l \in 1..Len(pie) : k < l => pie[k].value >= pie[l].value
           /\ reports = <<>> =>
                /\ Len(pie) = Len(categories)
                /\ \A k \in 1..Len(pie) :
                       pie[k] = [name |-> DirectoryName(categories[k]), value |-> 0]
           /\ pie = <<>> <=> (reports = <<>> /\ categories = <<>>)

\* Eleven reports, the first of a category listed first in the directory
\* and ten of the category listed second, came back with the ten first.
C23_Witness ==
    /\ aggRun.fn = "getPieChartData"
    /\ Len(aggRun.reports) = 11
    /\ Len(aggRun.categories) = 3
    /\ aggRun.categories[1].id = "c1"
    /\ aggRun.value = <<[name |-> "Harinama Sankirtana", value |-> 10],
                        [name |-> "Book Distribution", value |-> 1]>>


\* The reports whose contacts is a sequence and whose prasadamServed is
\* absent: the prasadam shown for them is the estimate from the contacts.
Estimated(report) ==
    report.contacts.kind = "array" /\ report.prasadamServed = Null

AllContactArrays(reports) ==
    \A i \in 1..Len(reports) : reports[i].contacts.kind = "array"

ContactLengths(reports) ==
    [i \in 1..Len(reports) |-> Len(reports[i].contacts.items)]

\* C24: for every report whose contacts is a sequence, each estimate derived
\* from the contacts, the new-contact count and the estimated prasadam, is
\* at most contacts.length.
C24_EstimatesWithinLength ==
    Computed(aggRun) =>
        /\ (aggRun.fn = "calculatePreachingImpact" /\ AllContactArrays(aggRun.reports)) =>
              aggRun.value.livesTouched <= Sum(ContactLengths(aggRun.reports))
        /\ aggRun.fn = "getRecentReports" =>
              \A i \in 1..Len(aggRun.value) :
                  Estimated(aggRun.reports[i]) =>
                      aggRun.value[i].prasadam <= Len(aggRun.reports[i].contacts.items)

\* C24 as the code has it: the new-contact count is at most contacts.length;
\* the estimated prasadam is floor(contacts.length * 1.5), which is at most
\* contacts.length only for a sequence of at most one contact.
C24_EstimatesByLength ==
    Computed(aggRun) =>
        /\ (aggRun.fn = "calculatePreachingImpact" /\ AllContactArrays(aggRun.reports)) =>
              aggRun.value.livesTouched <= Sum(ContactLengths(aggRun.reports))
        /\ aggRun.fn = "getRecentReports" =>
              \A i \in 1..Len(aggRun.value) :
                  Estimated(aggRun.reports[i]) =>
                      LET length == Len(aggRun.reports[i].contacts.items)
                          estimate == aggRun.value[i].prasadam
                      IN /\ 2 * estimate <= 3 * length
                         /\ 3 * length < 2 * (estimate + 1)
                         /\ estimate <= length <=> length <= 1

\* A row was returned for a report with three contacts and no
\* prasadamServed: four plates estimated.
C24_Witness ==
    /\ aggRun.fn = "getRecentReports"
    /\ Len(aggRun.value) >= 1
    /\ aggRun.reports[1].id = "r1"
    /\ Estimated(aggRun.reports[1])
    /\ Len(aggRun.reports[1].contacts.items) = 3
    /\ aggRun.value[1].prasadam = 4


(***************************************************************************)
(* Freshness and overlapping calls                                         *)
(***************************************************************************)

\* C25: whenever fetchUsers or fetchPreachingCategories returns its cached
\* collection, that collection was stored from a store response less than
\* 5 minutes (300000 ms) earlier.
C25_CachedWithinTTL ==
    \A c \in {"users", "preachingCategories"} :
        (lastEvent.op = c /\ lastEvent.outcome = "cached") =>
            now - storedAt[c] < 300000


\* C26: what a fetcher read from the store before clearCache() ran is not
\* written into the cache after the clear: when the fetcher whose store
\* response arrived before the clear resumes right after it, the cache
\* stays empty.
C26_NoWriteAfterClear ==
    [][ \A i \in 1..MaxCalls :
            (/\ lastEvent.op = "clearCache"
             /\ calls[i].pc = "responded"
             /\ calls'[i].pc = "idle") =>
                AllAbsent(dataCache')
      ]_vars

\* C27: the cached reports are never replaced by a snapshot read from the
\* store earlier than the one cached.  Documents are only added to the
\* store, so a snapshot read earlier never holds more reports than one read
\* later: the number of cached reports never decreases, and lastFetch is
\* not set anew on a step that decreases it.
C27_NoOlderSnapshot ==
    [][ (dataCache.activityReports # Null /\ dataCache'.activityReports # Null) =>
            Len(Val(dataCache'.activityReports)) >= Len(Val(dataCache.activityReports))
      ]_vars

\* C28: a fetcher whose store query fails leaves the three collections and
\* lastFetch as they were: the cache is written by no step of a fetcher
\* other than the resumption after a successful response, and the failed
\* fetcher returns its empty result without caching it.
C28_FailedFetchFrame ==
    [][ \A i \in 1..MaxCalls :
            /\ (calls'[i] # calls[i] /\ ~(calls[i].pc = "responded" /\ calls[i].resp = "ok")) =>
                  dataCache' = dataCache
            /\ (calls[i].pc = "responded" /\ calls[i].resp = "error" /\ calls'[i].pc = "idle") =>
                  /\ lastEvent'.outcome = "failed"
                  /\ Len(lastEvent'.value) = 0
                  /\ dataCache' = dataCache
      ]_vars

\* fetchUsers has just returned its empty fallback after a failed query
\* issued although one user was cached (no reports, hence no lastFetch):
\* the cached user is still there.
C28_Witness ==
    /\ lastEvent.op = "users"
    /\ lastEvent.outcome = "failed"
    /\ dataCache.users = Some(MappingOf(1))
    /\ dataCache.lastFetch = Null


(***************************************************************************)
(* Delete helpers and roles                                                *)
(***************************************************************************)

\* C29: deleteResource and deleteGalleryImage are all-or-nothing: either
\* true is returned and neither the metadata document nor the stored object
\* exists, or an error is thrown and both stores are as they were before
\* the call.
C29_DeleteAllOrNothing ==
    deleteRun.fn # "none" =>
        \/ /\ deleteRun.outcome = "returned"
           /\ deleteRun.value = Some(TRUE)
           /\ deleteRun.id \notin deleteRun.docsAfter
           /\ deleteRun.filename \notin deleteRun.objectsAfter
        \/ /\ deleteRun.outcome = "thrown"
           /\ deleteRun.docsAfter = deleteRun.docs
           /\ deleteRun.objectsAfter = deleteRun.objects

\* The role of a user document, whichever of the fields the lookup reads
\* holds it, equals 'admin' or 'super_admin' ignoring case.
HoldsAdminRole(directory, userId) ==
    /\ directory[userId] # Null
    /\ \E field \in { Val(directory[userId]).role, Val(directory[userId]).userRole,
                      Val(directory[userId]).permission, Val(directory[userId]).level } :
           /\ field.kind = "string"
           /\ toLowerCase(field.text) \in {"admin", "super_admin"}

\* C30: checkAdminAccess(userId) never throws, and returns true only if the
\* users collection the store holds at that moment has a document for
\* userId with an admin role; so it returns false for a user without
\* document and for one whose role updateUserRole has changed away.
C30_AdminOnlyFromStore ==
    roleRun.op = "checkAdminAccess" =>
        /\ roleRun.outcome = "returned"
        /\ roleRun.value = Some(TRUE) => HoldsAdminRole(roleRun.users, roleRun.userId)

====
